---- MODULE Spec2Model ----
(***************************************************************************)
(* Model of the response analytics and export engine of the Google Forms   *)
(* MCP server: src/src/services/google-forms-service.ts (GoogleFormsService)*)
(* with the types of src/unnamed/part_001.                                  *)
(*                                                                         *)
(* Conventions.                                                            *)
(*  - A JavaScript value that may be undefined is an option: None is the   *)
(*    absent value, Some(x) the present one.                               *)
(*  - A JavaScript string whose characters matter is a sequence of         *)
(*    one-character strings; the literal text of an error message and the  *)
(*    tags of the API (question kinds, choice types) are TLA+ strings.     *)
(*  - A JavaScript number that may be fractional is an exact fraction      *)
(*    [n, d] in lowest terms (binary rounding is not modelled).            *)
(*  - A JavaScript object used as a map is the sequence of its [k, v]      *)
(*    entries in enumeration order (integer-like keys ascending, then the  *)
(*    other keys in insertion order), with unique keys.                    *)
(***************************************************************************)
EXTENDS Integers, Sequences, FiniteSets, TLC

(***************************************************************************)
(* Options, fractions, sequences                                           *)
(***************************************************************************)
None == <<>>

Some(x) == <<x>>

IsSome(o) == Len(o) = 1

Get(o) == o[1]

RECURSIVE Gcd(_, _)
Gcd(a, b) == IF b = 0 THEN a ELSE Gcd(b, a % b)

Abs(x) == IF x < 0 THEN -x ELSE x

\* The number n / d (d > 0), in lowest terms.
Frac(n, d) ==
    LET g == Gcd(Abs(n), d)
    IN  [n |-> n \div g, d |-> d \div g]

FracLeq(x, y) == x.n * y.d <= y.n * x.d

RECURSIVE SumSeq(_)
SumSeq(s) == IF s = <<>> THEN 0 ELSE Head(s) + SumSeq(Tail(s))

RECURSIVE Flatten(_)
Flatten(ss) == IF ss = <<>> THEN <<>> ELSE Head(ss) \o Flatten(Tail(ss))

MapSeq(s, F(_)) == [i \in 1..Len(s) |-> F(s[i])]

SeqsUpTo(S, n) == UNION {[1..k -> S] : k \in 0..n}

\* obj[key] of a JavaScript object: the entry's value, or undefined.
Lookup(obj, key) ==
    IF \E i \in 1..Len(obj) : obj[i].k = key
    THEN Some(obj[CHOOSE i \in 1..Len(obj) : obj[i].k = key].v)
    ELSE None

(***************************************************************************)
(* Characters and strings                                                  *)
(***************************************************************************)
Digits == <<"0", "1", "2", "3", "4", "5", "6", "7", "8", "9">>

UpperChars ==
    <<"A", "B", "C", "D", "E", "F", "G", "H", "I", "J", "K", "L", "M",
      "N", "O", "P", "Q", "R", "S", "T", "U", "V", "W", "X", "Y", "Z">>

LowerChars ==
    <<"a", "b", "c", "d", "e", "f", "g", "h", "i", "j", "k", "l", "m",
      "n", "o", "p", "q", "r", "s", "t", "u", "v", "w", "x", "y", "z">>

\* The characters of the model in UTF-16 code unit order.
CharOrder ==
    <<"\t", "\n", " ", "!", "\"", ",", "-", ".">> \o Digits \o <<":", ";">>
        \o UpperChars \o <<"_">> \o LowerChars

Range(s) == {s[i] : i \in 1..Len(s)}

IndexOf(s, c) == CHOOSE i \in 1..Len(s) : s[i] = c

CharCode(c) == IndexOf(CharOrder, c)

IsDigit(c) == c \in Range(Digits)

DigitVal(c) == IndexOf(Digits, c) - 1

\* \s of a regular expression
IsSpace(c) == c \in {" ", "\t", "\n"}

\* \w of a regular expression
IsWordChar(c) == c \in Range(Digits) \cup Range(UpperChars) \cup Range(LowerChars) \cup {"_"}

\* String.prototype.toLowerCase, one character
LowerChar(c) == IF c \in Range(UpperChars) THEN LowerChars[IndexOf(UpperChars, c)] ELSE c

\* a < b for two strings: the comparison Array.prototype.sort() uses by default
RECURSIVE StrLess(_, _)
StrLess(a, b) ==
    IF b = <<>> THEN FALSE
    ELSE IF a = <<>> THEN TRUE
    ELSE IF Head(a) = Head(b) THEN StrLess(Tail(a), Tail(b))
    ELSE CharCode(Head(a)) < CharCode(Head(b))

RECURSIVE SkipSpaces(_)
SkipSpaces(s) == IF s # <<>> /\ IsSpace(Head(s)) THEN SkipSpaces(Tail(s)) ELSE s

RECURSIVE LeadingDigits(_)
LeadingDigits(s) ==
    IF s # <<>> /\ IsDigit(Head(s)) THEN <<Head(s)>> \o LeadingDigits(Tail(s)) ELSE <<>>

RECURSIVE DigitsValue(_, _)
DigitsValue(ds, acc) ==
    IF ds = <<>> THEN acc ELSE DigitsValue(Tail(ds), 10 * acc + DigitVal(Head(ds)))

\* parseInt(value, 10): leading white space is skipped, an optional sign is
\* read, then the longest run of decimal digits; None stands for NaN.
parseInt(value) ==
    LET t    == SkipSpaces(value)
        neg  == t # <<>> /\ Head(t) = "-"
        u    == IF t # <<>> /\ Head(t) \in {"-", "+"} THEN Tail(t) ELSE t
        ds   == LeadingDigits(u)
    IN  IF ds = <<>> THEN None
        ELSE Some(IF neg THEN -DigitsValue(ds, 0) ELSE DigitsValue(ds, 0))

(***************************************************************************)
(* JavaScript numbers and objects                                          *)
(***************************************************************************)
NaN == [n |-> 0, d |-> 0]

Infinity == [n |-> 1, d |-> 0]

IsNaN(x) == x.n = 0 /\ x.d = 0

\* a / b for integers a and b >= 0 (0 / 0 is NaN)
JsDiv(a, b) == IF b = 0 THEN (IF a = 0 THEN NaN ELSE Infinity) ELSE Frac(a, b)

\* x * k for a number x and an integer k > 0
JsMul(x, k) == IF x.d = 0 THEN x ELSE Frac(x.n * k, x.d)

\* An integer-like property key ("0", "7", "123"): an object enumerates
\* these first, in ascending numeric order, before its other keys.
IsArrayIndex(key) ==
    /\ key # <<>>
    /\ \A i \in 1..Len(key) : IsDigit(key[i])
    /\ (Len(key) = 1 \/ key[1] # "0")

\* obj with the new key added, at its place in the enumeration order.
RECURSIVE AddKey(_, _, _)
AddKey(obj, key, val) ==
    IF obj = <<>> THEN <<[k |-> key, v |-> val]>>
    ELSE IF /\ IsArrayIndex(key)
            /\ \/ ~IsArrayIndex(Head(obj).k)
               \/ DigitsValue(key, 0) < DigitsValue(Head(obj).k, 0)
         THEN <<[k |-> key, v |-> val]>> \o obj
    ELSE <<Head(obj)>> \o AddKey(Tail(obj), key, val)

\* obj[key] = val
SetKey(obj, key, val) ==
    IF \E i \in 1..Len(obj) : obj[i].k = key
    THEN [i \in 1..Len(obj) |-> IF obj[i].k = key THEN [k |-> key, v |-> val] ELSE obj[i]]
    ELSE AddKey(obj, key, val)

S_constructor == <<"c", "o", "n", "s", "t", "r", "u", "c", "t", "o", "r">>

S_proto == <<"_", "_", "p", "r", "o", "t", "o", "_", "_">>

\* The properties an object literal {} inherits from Object.prototype: each
\* is a function (or, for __proto__, an object), so reading it gives a value
\* a condition takes as true.
ObjectPrototypeKeys ==
    {S_constructor, S_proto,
     <<"t", "o", "S", "t", "r", "i", "n", "g">>,
     <<"v", "a", "l", "u", "e", "O", "f">>,
     <<"t", "o", "L", "o", "c", "a", "l", "e", "S", "t", "r", "i", "n", "g">>,
     <<"h", "a", "s", "O", "w", "n", "P", "r", "o", "p", "e", "r", "t", "y">>,
     <<"i", "s", "P", "r", "o", "t", "o", "t", "y", "p", "e", "O", "f">>,
     <<"p", "r", "o", "p", "e", "r", "t", "y", "I", "s", "E", "n", "u", "m", "e", "r", "a", "b", "l", "e">>,
     <<"_", "_", "d", "e", "f", "i", "n", "e", "G", "e", "t", "t", "e", "r", "_", "_">>,
     <<"_", "_", "d", "e", "f", "i", "n", "e", "S", "e", "t", "t", "e", "r", "_", "_">>,
     <<"_", "_", "l", "o", "o", "k", "u", "p", "G", "e", "t", "t", "e", "r", "_", "_">>,
     <<"_", "_", "l", "o", "o", "k", "u", "p", "S", "e", "t", "t", "e", "r", "_", "_">>}

\* The value of a tally entry that is no number: (f || 0) + 1 for an
\* inherited function f is the text of f with "1" appended, and adding 1 to
\* a string again gives a string.
NotACount == -1

\* obj[key] = (obj[key] || 0) + 1, for obj built from the literal {}.  The
\* read of a key the object does not own goes to Object.prototype; the
\* assignment to __proto__ of a value that is no object is ignored.
Increment(obj, key) ==
    IF IsSome(Lookup(obj, key))
    THEN SetKey(obj, key, IF Get(Lookup(obj, key)) = NotACount
                          THEN NotACount ELSE Get(Lookup(obj, key)) + 1)
    ELSE IF key = S_proto THEN obj
    ELSE IF key \in ObjectPrototypeKeys THEN SetKey(obj, key, NotACount)
    ELSE SetKey(obj, key, 1)

\* The keys counted into obj one after the other, in order: the first half
\* of the keys, then the second half.
RECURSIVE CountAll(_, _)
CountAll(keys, obj) ==
    IF keys = <<>> THEN obj
    ELSE IF Len(keys) = 1 THEN Increment(obj, keys[1])
    ELSE LET half == Len(keys) \div 2
             counted == CountAll(SubSeq(keys, 1, half), obj)
         IN  IF counted = obj THEN CountAll(SubSeq(keys, half + 1, Len(keys)), obj)
             ELSE CountAll(SubSeq(keys, half + 1, Len(keys)), counted)

\* The strict order of each comparator the service sorts with.
Before(cmp, x, y) ==
    CASE cmp = "ascending"  -> x < y           \* (a, b) => a - b
      [] cmp = "countDesc"  ->                 \* ([, a], [, b]) => b - a
            x.v # NotACount /\ y.v # NotACount /\ x.v > y.v
      [] cmp = "default"    -> StrLess(x, y)   \* no comparator: strings

\* s with x inserted before the first element that must follow it: one step
\* of a stable sort.
RECURSIVE InsertSorted(_, _, _)
InsertSorted(s, x, cmp) ==
    IF s = <<>> THEN <<x>>
    ELSE IF Before(cmp, x, Head(s)) THEN <<x>> \o s
    ELSE <<Head(s)>> \o InsertSorted(Tail(s), x, cmp)

\* Array.prototype.sort; the sort is stable (ECMAScript 2019).
RECURSIVE SortBy(_, _)
SortBy(s, cmp) ==
    IF s = <<>> THEN <<>>
    ELSE InsertSorted(SortBy(SubSeq(s, 1, Len(s) - 1), cmp), s[Len(s)], cmp)

(***************************************************************************)
(* Data (src/unnamed/part_001)                                             *)
(*   Answer   [textAnswers : option of a sequence of strings]              *)
(*   Response [responseId, createTime, lastSubmittedTime : option of       *)
(*             string, answers : option of an object questionId -> Answer] *)
(*   Question [questionId, kind, choiceType, paragraph]; kind names the    *)
(*            one member of the question union that is set                 *)
(*   Item     [title : option of string, question : option of Question]    *)
(*   Form     [formId, title, items : option of a sequence of Item]        *)
(* The provider's data is cast to these types unchecked, so a field the    *)
(* type declares required (answers) can still be absent at run time.       *)
(***************************************************************************)

\* answer.textAnswers?.answers?.[0]?.value
FirstValue(answer) ==
    IF IsSome(answer.textAnswers) /\ Get(answer.textAnswers) # <<>>
    THEN Some(Get(answer.textAnswers)[1])
    ELSE None

\* The values of a sequence of options that are present, unwrapped.
RECURSIVE Present(_)
Present(os) ==
    IF os = <<>> THEN <<>>
    ELSE (IF IsSome(Head(os)) THEN <<Get(Head(os))>> ELSE <<>>) \o Present(Tail(os))

analyzeChoiceQuestion(answers) ==
    LET valuesOf(a) == IF IsSome(a.textAnswers) THEN Get(a.textAnswers) ELSE <<>>
    IN  CountAll(Flatten(MapSeq(answers, valuesOf)), <<>>)

\* Mutant of MedianOfSorted: the upper central element, whatever the length.
MedianUpperCentral(sorted) == Frac(sorted[Len(sorted) \div 2 + 1], 1)

\* The median of an ascending list of integers, as the service computes it.
MedianOfSorted(sorted) ==
    IF Len(sorted) % 2 = 0
    THEN Frac(sorted[Len(sorted) \div 2] + sorted[Len(sorted) \div 2 + 1], 2)
    ELSE Frac(sorted[Len(sorted) \div 2 + 1], 1)

\* The statistics fields a type-specific analysis may add, all absent.
NoStatistics ==
    [choiceDistribution |-> None, average |-> None, median |-> None, min |-> None,
     max |-> None, averageLength |-> None, commonWords |-> None]

\* Mutant of analyzeScaleQuestion: a first value that is no number counts
\* as 0.
analyzeScaleQuestionZeroes(answers) ==
    LET orZero(n) == IF IsSome(n) THEN Get(n) ELSE 0
        values    == MapSeq(MapSeq(Present(MapSeq(answers, FirstValue)), parseInt), orZero)
        sorted    == SortBy(values, "ascending")
    IN  IF Len(values) = 0 THEN NoStatistics
        ELSE [NoStatistics EXCEPT
                !.average = Some(JsDiv(SumSeq(sorted), Len(sorted))),
                !.median  = Some(MedianOfSorted(sorted)),
                !.min     = Some(sorted[1]),
                !.max     = Some(sorted[Len(sorted)])]

analyzeScaleQuestion(answers) ==
    LET values == Present(MapSeq(Present(MapSeq(answers, FirstValue)), parseInt))
        sorted == SortBy(values, "ascending")
    IN  IF Len(values) = 0 THEN NoStatistics
        ELSE [NoStatistics EXCEPT
                !.average = Some(JsDiv(SumSeq(sorted), Len(sorted))),
                !.median  = Some(MedianOfSorted(sorted)),
                !.min     = Some(sorted[1]),
                !.max     = Some(sorted[Len(sorted)])]

analyzeRatingQuestion(answers) == analyzeScaleQuestion(answers)

\* text.split(/\s+/): the pieces between runs of white space, the empty
\* piece before a leading run and after a trailing one included.
SplitSpaces(s) ==
    LET first  == {i \in 1..Len(s) : IsSpace(s[i]) /\ (i = 1 \/ ~IsSpace(s[i - 1]))}
        last   == {i \in 1..Len(s) : IsSpace(s[i]) /\ (i = Len(s) \/ ~IsSpace(s[i + 1]))}
        runs   == Cardinality(first)
        nth(S, k) == CHOOSE x \in S : Cardinality({y \in S : y < x}) = k - 1
    IN  [k \in 1..(runs + 1) |->
            SubSeq(s, IF k = 1 THEN 1 ELSE nth(last, k - 1) + 1,
                      IF k = runs + 1 THEN Len(s) ELSE nth(first, k) - 1)]

MinWordLength == 2

TopWordsLimit == 10

\* The words of one text: lower-cased, every character that is neither a
\* word character nor white space removed, split on white space, the pieces
\* of at most MinWordLength characters dropped.
WordsOf(text) ==
    LET lower    == MapSeq(text, LowerChar)
        keep(c)  == IsWordChar(c) \/ IsSpace(c)
        stripped == SelectSeq(lower, keep)
        long(w)  == Len(w) > MinWordLength
    IN  SelectSeq(SplitSpaces(stripped), long)

\* [word, count] pairs put into a fresh object one after the other.
RECURSIVE FromEntries(_, _)
FromEntries(entries, acc) ==
    IF entries = <<>> THEN acc
    ELSE FromEntries(Tail(entries), SetKey(acc, Head(entries).k, Head(entries).v))

\* Mutant of analyzeTextQuestion: no early return when no text is left.
analyzeTextQuestionUnguarded(answers) ==
    [NoStatistics EXCEPT
        !.averageLength = Some(JsDiv(SumSeq(MapSeq(Present(MapSeq(answers, FirstValue)), Len)),
                                     Len(Present(MapSeq(answers, FirstValue))))),
        !.commonWords   = Some(<<>>)]

analyzeTextQuestion(answers) ==
    LET nonEmpty(t) == t # <<>>
        texts       == SelectSeq(Present(MapSeq(answers, FirstValue)), nonEmpty)
        totalLength == SumSeq(MapSeq(texts, Len))
        wordCounts  == CountAll(Flatten(MapSeq(texts, WordsOf)), <<>>)
        ranked      == SortBy(wordCounts, "countDesc")
        top         == SubSeq(ranked, 1, IF Len(ranked) < TopWordsLimit
                                          THEN Len(ranked) ELSE TopWordsLimit)
    IN  IF Len(texts) = 0 THEN NoStatistics
        ELSE [NoStatistics EXCEPT
                !.averageLength = Some(JsDiv(totalLength, Len(texts))),
                !.commonWords   = Some(FromEntries(top, <<>>))]

(***************************************************************************)
(* The summary of a fetched response set                                   *)
(***************************************************************************)
\* A call that returned v, and a call that raised the exception e.
Returned(v) == [threw |-> FALSE, value |-> v]

Raised(e) == [threw |-> TRUE, error |-> e]

\* An error message: the literal text of the template that built it and
\* the values interpolated into it, each [kind, value] with the kind
\* "formId", "format" or "message" (the message of the error caught).
Message(template, args) == [template |-> template, args |-> args]

Interpolated(kind, value) == [kind |-> kind, value |-> value]

\* Reading a property of undefined.
TypeError == Message("Cannot read properties of undefined", <<>>)

\* s is a string that a JavaScript condition takes as true.
Truthy(s) == IsSome(s) /\ Get(s) # <<>>

UntitledQuestion ==
    <<"U", "n", "t", "i", "t", "l", "e", "d", " ", "Q", "u", "e", "s", "t", "i", "o", "n">>

\* question.choiceQuestion.type.toLowerCase()
LowerChoiceType(t) ==
    CASE t = "RADIO"     -> "radio"
      [] t = "CHECKBOX"  -> "checkbox"
      [] t = "DROP_DOWN" -> "drop_down"

\* Mutant of ResponseRate: the division is not guarded.
ResponseRateUnguarded(responseCount, total) == JsMul(JsDiv(responseCount, total), 100)

\* responses.length > 0 ? (responseCount / responses.length) * 100 : 0
ResponseRate(responseCount, total) ==
    IF total > 0 THEN JsMul(JsDiv(responseCount, total), 100) ELSE Frac(0, 1)

\* The type tag and the statistics of one question over its answers.
QuestionType(question) ==
    CASE question.kind = "choiceQuestion"     -> LowerChoiceType(question.choiceType)
      [] question.kind = "scaleQuestion"      -> "scale"
      [] question.kind = "textQuestion"       ->
            IF question.paragraph THEN "paragraph" ELSE "short_answer"
      [] question.kind = "dateQuestion"       -> "date"
      [] question.kind = "timeQuestion"       -> "time"
      [] question.kind = "fileUploadQuestion" -> "file_upload"
      [] question.kind = "ratingQuestion"     -> "rating"
      [] OTHER                                -> "unknown"

TypeStatistics(question, answers) ==
    CASE question.kind = "choiceQuestion" ->
            [NoStatistics EXCEPT !.choiceDistribution = Some(analyzeChoiceQuestion(answers))]
      [] question.kind = "scaleQuestion"  -> analyzeScaleQuestion(answers)
      [] question.kind = "textQuestion"   -> analyzeTextQuestion(answers)
      [] question.kind = "ratingQuestion" -> analyzeRatingQuestion(answers)
      [] OTHER                            -> NoStatistics

\* responses.map(response => response.answers[questionId]).filter(answer => answer)
\* reads a property of response.answers: a response without the answers
\* object makes it raise a TypeError.
analyzeQuestionResponses(question, title, questionId, responses) ==
    IF \E i \in 1..Len(responses) : ~IsSome(responses[i].answers)
    THEN Raised(TypeError)
    ELSE LET answerOf(r)        == Lookup(Get(r.answers), questionId)
             answersForQuestion == Present(MapSeq(responses, answerOf))
             responseCount      == Len(answersForQuestion)
         IN  Returned(
               [questionId    |-> questionId,
                title         |-> title,
                type          |-> QuestionType(question),
                responseCount |-> responseCount,
                statistics    |->
                    [responseRate |-> ResponseRate(responseCount, Len(responses))]
                        @@ TypeStatistics(question, answersForQuestion)])

\* Mutant of ResponseTime: createTime is taken before lastSubmittedTime.
ResponseTimeCreatedFirst(response) ==
    IF Truthy(response.createTime) THEN response.createTime
    ELSE IF Truthy(response.lastSubmittedTime) THEN response.lastSubmittedTime
    ELSE None

\* The time each response contributes to the time range, if any.
ResponseTime(response) ==
    IF Truthy(response.lastSubmittedTime) THEN response.lastSubmittedTime
    ELSE IF Truthy(response.createTime) THEN response.createTime
    ELSE None

\* The items of the form that the summary and the CSV export iterate:
\* those with item.questionItem?.question.
QuestionItems(form) ==
    LET isQuestion(item) == IsSome(item.question)
    IN  IF IsSome(form.items) THEN SelectSeq(Get(form.items), isQuestion) ELSE <<>>

\* Mutant of KeepSummary: a question nobody answered gets no summary.
KeepSummaryIfAnswered(summary) == summary.responseCount > 0

\* if (summary) questionSummaries.push(summary): analyzeQuestionResponses
\* never returns null.
KeepSummary(summary) == TRUE

\* generateResponseSummary once the form and all responses are fetched.
SummaryOf(form, allResponses) ==
    LET responseTimes == Present(MapSeq(allResponses, ResponseTime))
        analyze(item) ==
            analyzeQuestionResponses(
                Get(item.question),
                IF Truthy(item.title) THEN Get(item.title) ELSE UntitledQuestion,
                Get(item.question).questionId,
                allResponses)
        results       == MapSeq(QuestionItems(form), analyze)
        value(r)      == r.value
        sortedTimes   == SortBy(responseTimes, "default")
    IN  IF \E i \in 1..Len(results) : results[i].threw
        THEN Raised(results[CHOOSE i \in 1..Len(results) : results[i].threw].error)
        ELSE Returned(
               [totalResponses    |-> Len(allResponses),
                questionSummaries |-> SelectSeq(MapSeq(results, value), KeepSummary),
                responseTimeRange |->
                    IF Len(responseTimes) > 0
                    THEN Some([earliest |-> sortedTimes[1],
                               latest   |-> sortedTimes[Len(sortedTimes)]])
                    ELSE None])

(***************************************************************************)
(* Export serialisation                                                    *)
(*                                                                         *)
(* The text JSON.stringify(data, null, 2) produces is modelled by the      *)
(* JSON value it denotes: a string, a number, an array, or an object, the  *)
(* sequence of its [k, v] members in output order.  A property whose value *)
(* is undefined is not written.  CSV text is a string, character by        *)
(* character.                                                              *)
(***************************************************************************)
S_responseId == <<"r", "e", "s", "p", "o", "n", "s", "e", "I", "d">>

S_respondentEmail == <<"r", "e", "s", "p", "o", "n", "d", "e", "n", "t", "E", "m", "a", "i", "l">>

S_createTime == <<"c", "r", "e", "a", "t", "e", "T", "i", "m", "e">>

S_lastSubmittedTime == <<"l", "a", "s", "t", "S", "u", "b", "m", "i", "t", "t", "e", "d", "T", "i", "m", "e">>

S_metadata == <<"m", "e", "t", "a", "d", "a", "t", "a">>

S_responses == <<"r", "e", "s", "p", "o", "n", "s", "e", "s">>

S_formId == <<"f", "o", "r", "m", "I", "d">>

S_title == <<"t", "i", "t", "l", "e">>

S_description == <<"d", "e", "s", "c", "r", "i", "p", "t", "i", "o", "n">>

S_exportedAt == <<"e", "x", "p", "o", "r", "t", "e", "d", "A", "t">>

S_totalResponses == <<"t", "o", "t", "a", "l", "R", "e", "s", "p", "o", "n", "s", "e", "s">>

S_answers == <<"a", "n", "s", "w", "e", "r", "s">>

S_textAnswers == <<"t", "e", "x", "t", "A", "n", "s", "w", "e", "r", "s">>

S_value == <<"v", "a", "l", "u", "e">>

S_QuestionPrefix == <<"Q", "u", "e", "s", "t", "i", "o", "n", "_">>

JsonString(s) == [t |-> "string", s |-> s]

JsonNumber(n) == [t |-> "number", n |-> n]

JsonArray(a) == [t |-> "array", a |-> a]

JsonObject(o) == [t |-> "object", o |-> o]

\* A string property that may be undefined, as a JSON value option.
StringProperty(s) == IF IsSome(s) THEN Some(JsonString(Get(s))) ELSE None

\* The members JSON.stringify writes for an object whose property values
\* are options: those that are not undefined.
Stringify(obj) ==
    LET defined(e) == IsSome(e.v)
        member(e)  == [k |-> e.k, v |-> Get(e.v)]
    IN  JsonObject(MapSeq(SelectSeq(obj, defined), member))

\* form.items?.find(item => item.questionItem?.question.questionId === questionId)
findQuestionById(theForm, questionId) ==
    LET items == QuestionItems(theForm)
    IN  IF \E i \in 1..Len(items) : Get(items[i].question).questionId = questionId
        THEN Some(items[CHOOSE i \in 1..Len(items) :
                          /\ Get(items[i].question).questionId = questionId
                          /\ \A j \in 1..(i - 1) :
                                Get(items[j].question).questionId # questionId])
        ELSE None

\* Mutant of FlattenAnswer: the text values are always written as a list.
FlattenAnswerAsList(flattened, theForm, entry) ==
    LET question      == findQuestionById(theForm, entry.k)
        questionTitle == IF IsSome(question) /\ Truthy(Get(question).title)
                         THEN Get(Get(question).title)
                         ELSE S_QuestionPrefix \o entry.k
    IN  IF ~IsSome(entry.v.textAnswers) THEN flattened
        ELSE SetKey(flattened, questionTitle,
                    Some(JsonArray(MapSeq(Get(entry.v.textAnswers), JsonString))))

\* One [questionId, answer] entry written into the flattened object.
FlattenAnswer(flattened, theForm, entry) ==
    LET question      == findQuestionById(theForm, entry.k)
        questionTitle == IF IsSome(question) /\ Truthy(Get(question).title)
                         THEN Get(Get(question).title)
                         ELSE S_QuestionPrefix \o entry.k
        values        == Get(entry.v.textAnswers)
    IN  IF ~IsSome(entry.v.textAnswers) THEN flattened
        ELSE IF Len(values) = 1
             THEN SetKey(flattened, questionTitle, Some(JsonString(values[1])))
        ELSE SetKey(flattened, questionTitle, Some(JsonArray(MapSeq(values, JsonString))))

RECURSIVE FlattenAnswers(_, _, _)
FlattenAnswers(flattened, theForm, entries) ==
    IF entries = <<>> THEN flattened
    ELSE FlattenAnswers(FlattenAnswer(flattened, theForm, Head(entries)), theForm,
                        Tail(entries))

\* The flattened object of one response (its answers object is present).
FlattenResponse(theForm, response, options) ==
    LET base  == <<[k |-> S_responseId, v |-> Some(JsonString(response.responseId))],
                   [k |-> S_respondentEmail, v |-> StringProperty(response.respondentEmail)]>>
        times == IF options.includeTimestamps
                 THEN <<[k |-> S_createTime, v |-> StringProperty(response.createTime)],
                        [k |-> S_lastSubmittedTime,
                         v |-> StringProperty(response.lastSubmittedTime)]>>
                 ELSE <<>>
    IN  Stringify(FlattenAnswers(base \o times, theForm, Get(response.answers)))

\* A response as the provider returned it, unflattened.
RawResponse(response) ==
    LET answerJson(e) ==
            [k |-> e.k,
             v |-> Some(Stringify(
                     <<[k |-> S_textAnswers,
                        v |-> IF IsSome(e.v.textAnswers)
                              THEN Some(JsonArray(MapSeq(Get(e.v.textAnswers), JsonString)))
                              ELSE None]>>))]
    IN  Stringify(
          <<[k |-> S_responseId, v |-> Some(JsonString(response.responseId))],
            [k |-> S_createTime, v |-> StringProperty(response.createTime)],
            [k |-> S_lastSubmittedTime, v |-> StringProperty(response.lastSubmittedTime)],
            [k |-> S_respondentEmail, v |-> StringProperty(response.respondentEmail)],
            [k |-> S_answers,
             v |-> IF IsSome(response.answers)
                   THEN Some(Stringify(MapSeq(Get(response.answers), answerJson)))
                   ELSE None]>>)

\* exportAsJson; now is the reading of the clock (new Date().toISOString()).
\* Object.entries(response.answers) raises a TypeError for a response
\* without the answers object.
exportAsJson(theForm, responses, options, now) ==
    LET metadata ==
            IF options.includeMetadata
            THEN Some(Stringify(
                   <<[k |-> S_formId, v |-> Some(JsonString(theForm.formId))],
                     [k |-> S_title, v |-> Some(JsonString(theForm.title))],
                     [k |-> S_description, v |-> StringProperty(theForm.description)],
                     [k |-> S_exportedAt, v |-> Some(JsonString(now))],
                     [k |-> S_totalResponses, v |-> Some(JsonNumber(Len(responses)))]>>))
            ELSE None
        flat(r) == FlattenResponse(theForm, r, options)
    IN  IF options.flattenResponses /\ \E i \in 1..Len(responses) : ~IsSome(responses[i].answers)
        THEN Raised(TypeError)
        ELSE Returned(Stringify(
               <<[k |-> S_metadata, v |-> metadata],
                 [k |-> S_responses,
                  v |-> Some(JsonArray(IF options.flattenResponses
                                       THEN MapSeq(responses, flat)
                                       ELSE MapSeq(responses, RawResponse)))]>>))

\* parts.join(sep)
RECURSIVE Join(_, _)
Join(parts, sep) ==
    IF parts = <<>> THEN <<>>
    ELSE IF Len(parts) = 1 THEN parts[1]
    ELSE parts[1] \o sep \o Join(Tail(parts), sep)

\* text.replace(/,/g, ';')
ReplaceCommas(text) == [i \in 1..Len(text) |-> IF text[i] = "," THEN ";" ELSE text[i]]

\* text.replace(/"/g, '""')
RECURSIVE DoubleQuotes(_)
DoubleQuotes(text) ==
    IF text = <<>> THEN <<>>
    ELSE (IF Head(text) = "\"" THEN <<"\"", "\"">> ELSE <<Head(text)>>)
            \o DoubleQuotes(Tail(text))

\* Mutant of CsvHeaders: the commas of a title are kept.
CsvHeadersWithCommas(theForm, options) ==
    LET titleOf(item) ==
            IF Truthy(item.title) THEN Get(item.title)
            ELSE S_QuestionPrefix \o Get(item.question).questionId
    IN  <<S_responseId>>
        \o (IF options.includeTimestamps THEN <<S_createTime, S_lastSubmittedTime>> ELSE <<>>)
        \o <<S_respondentEmail>>
        \o MapSeq(QuestionItems(theForm), titleOf)

\* The header fields of the CSV export.
CsvHeaders(theForm, options) ==
    LET titleOf(item) ==
            ReplaceCommas(IF Truthy(item.title) THEN Get(item.title)
                          ELSE S_QuestionPrefix \o Get(item.question).questionId)
    IN  <<S_responseId>>
        \o (IF options.includeTimestamps THEN <<S_createTime, S_lastSubmittedTime>> ELSE <<>>)
        \o <<S_respondentEmail>>
        \o MapSeq(QuestionItems(theForm), titleOf)

\* s || ''
OrEmpty(s) == IF Truthy(s) THEN Get(s) ELSE <<>>

\* Mutant of CsvRow: a missing answer gets no field.
CsvRowSkippingMissing(theForm, response, options) ==
    LET answered(item) ==
            LET answer == Lookup(Get(response.answers), Get(item.question).questionId)
            IN  IsSome(answer) /\ IsSome(Get(answer).textAnswers)
        cell(item) ==
            <<"\"">>
            \o DoubleQuotes(Join(Get(Get(Lookup(Get(response.answers),
                                               Get(item.question).questionId)).textAnswers),
                                 <<";", " ">>))
            \o <<"\"">>
    IN  <<response.responseId>>
        \o (IF options.includeTimestamps
            THEN <<OrEmpty(response.createTime), OrEmpty(response.lastSubmittedTime)>>
            ELSE <<>>)
        \o <<OrEmpty(response.respondentEmail)>>
        \o MapSeq(SelectSeq(QuestionItems(theForm), answered), cell)

\* The fields of the row of one response (its answers object is present,
\* or the form has no question).
CsvRow(theForm, response, options) ==
    LET cell(item) ==
            LET answer == Lookup(Get(response.answers), Get(item.question).questionId)
            IN  IF IsSome(answer) /\ IsSome(Get(answer).textAnswers)
                THEN <<"\"">>
                     \o DoubleQuotes(Join(Get(Get(answer).textAnswers), <<";", " ">>))
                     \o <<"\"">>
                ELSE <<>>
    IN  <<response.responseId>>
        \o (IF options.includeTimestamps
            THEN <<OrEmpty(response.createTime), OrEmpty(response.lastSubmittedTime)>>
            ELSE <<>>)
        \o <<OrEmpty(response.respondentEmail)>>
        \o MapSeq(QuestionItems(theForm), cell)

\* exportAsCsv.  response.answers[questionId] raises a TypeError for a
\* response without the answers object when the form has a question.
exportAsCsv(theForm, responses, options) ==
    LET row(r) == Join(CsvRow(theForm, r, options), <<",">>)
    IN  IF /\ QuestionItems(theForm) # <<>>
           /\ \E i \in 1..Len(responses) : ~IsSome(responses[i].answers)
        THEN Raised(TypeError)
        ELSE Returned(Join(<<Join(CsvHeaders(theForm, options), <<",">>)>>
                             \o MapSeq(responses, row),
                           <<"\n">>))

\* The part of exportResponses after the form and the responses are fetched.
ExportFetched(theForm, responses, options, now) ==
    IF options.format = "json" THEN exportAsJson(theForm, responses, options, now)
    ELSE IF options.format = "csv" THEN exportAsCsv(theForm, responses, options)
    ELSE Raised(Message("Unsupported export format: ",
                        <<Interpolated("format", options.format)>>))

(***************************************************************************)
(* The service against the provider                                        *)
(*                                                                         *)
(* Each invocation p of a service method is a chain of asynchronous calls. *)
(* pc[p] is where it is suspended:                                         *)
(*   "idle"      not started                                               *)
(*   "auth"      in ensureInitialized, awaiting initializeApi              *)
(*   "rateLimit" awaiting the rateLimit timer                              *)
(*   "await"     request sent, awaiting the provider                       *)
(*   "returned", "failed"  the method's promise is settled                 *)
(***************************************************************************)
VARIABLES
    providerForm,   \* the form the provider holds under KnownFormId
    pages,          \* the provider's response pages of that form, in order
    formsApi,       \* this.formsApi is set
    ctor,           \* the initializeApi call the constructor started
    starters,       \* the invocations that may start
    pc, op, call, form, pageToken, allResponses, result,
    sent,           \* every request sent to the provider, in order
    replies,        \* every answer of the provider, in order
    log,            \* the lines written with console.error
    in, out,        \* input and result of a pure computation (SpecSummary)
    revision,       \* the provider's latest revision of the form a mutation addresses
    mutation,       \* the form-mutation call in progress (googleFormsService.js / .ts)
    updates         \* every forms.batchUpdate the provider has processed, in order

mutVars == <<revision, mutation, updates>>

vars ==
    <<providerForm, pages, formsApi, ctor, starters, pc, op, call, form, pageToken,
      allResponses, result, sent, replies, log, in, out, mutVars>>

\* No form-mutation call is in progress.
Idle == [service |-> "", name |-> "", pc |-> "idle", revisionId |-> <<>>]

NoMutation ==
    /\ revision = 1
    /\ mutation = Idle
    /\ updates = <<>>

procVars == <<pc, op, call, form, pageToken, allResponses, result>>

Procs == {"p1", "p2"}

KnownFormId == <<"f", "1">>

FormIds == {<<"f", "1">>, <<"f", "2">>}

\* Failures of a request that do not depend on the request.
ProviderErrors == {Message("quota exceeded", <<>>), Message("socket hang up", <<>>)}

NotFoundError == Message("Requested entity was not found.", <<>>)

InvalidTokenError == Message("Request contains an invalid argument.", <<>>)

AuthError == Message("No access, refresh token, API key or refresh handler callback is set.", <<>>)

\* The page token the provider hands out for page i (i >= 2).
Token(i) == <<"t", Digits[i + 1]>>

\* The page a list request with this token asks for; 0 if the provider does
\* not know the token.
PageIndex(token) ==
    IF ~IsSome(token) THEN 1
    ELSE IF \E i \in 2..Len(pages) : Token(i) = Get(token)
         THEN CHOOSE i \in 2..Len(pages) : Token(i) = Get(token)
    ELSE 0

ExportOptions ==
    {[format |-> f, includeMetadata |-> b, includeTimestamps |-> b, flattenResponses |-> b] :
        f \in {"json", "csv", "xml"}, b \in BOOLEAN}

NoOptions ==
    [format |-> "", includeMetadata |-> FALSE, includeTimestamps |-> FALSE,
     flattenResponses |-> FALSE]

Operations ==
    {[name |-> "getAllFormResponses", formId |-> f, options |-> NoOptions] : f \in FormIds}
    \cup {[name |-> "generateResponseSummary", formId |-> f, options |-> NoOptions] :
            f \in FormIds}
    \cup {[name |-> "exportResponses", formId |-> f, options |-> o] :
            f \in FormIds, o \in ExportOptions}

\* await this.ensureInitialized(), entered synchronously by the caller: the
\* test of this.formsApi is made at the call.
EnterCall(p, c) ==
    /\ call' = [call EXCEPT ![p] = c]
    /\ pc' = [pc EXCEPT ![p] = IF formsApi THEN "rateLimit" ELSE "auth"]

\* The method's promise rejects with the error e.
Fail(p, e) ==
    /\ pc' = [pc EXCEPT ![p] = "failed"]
    /\ result' = [result EXCEPT ![p] = Some(Raised(e))]

\* The method's promise is settled with the outcome r of its last,
\* synchronous part.
Settle(p, r) ==
    /\ pc' = [pc EXCEPT ![p] = IF r.threw THEN "failed" ELSE "returned"]
    /\ result' = [result EXCEPT ![p] = Some(r)]

\* The readings of the clock an export may take.
Clock == {<<"T", "1">>, <<"T", "2">>}

\* The request method an operation calls first: getAllFormResponses starts
\* paging at once, createForm and batchUpdateForm are request methods
\* themselves, the others first call getForm.
FirstCall(o) ==
    CASE o.name = "getAllFormResponses" -> "getFormResponses"
      [] o.name \in {"createForm", "batchUpdateForm"} -> o.name
      [] OTHER -> "getForm"

\* A service method is called.
Start(p, o) ==
    /\ p \in starters
    /\ pc[p] = "idle"
    /\ op' = [op EXCEPT ![p] = o]
    /\ EnterCall(p, FirstCall(o))
    /\ UNCHANGED <<mutVars, providerForm, pages, formsApi, ctor, starters, form, pageToken,
                   allResponses, result, sent, replies, log, in, out>>

\* The initializeApi call of the constructor completes.
CtorInitialized ==
    /\ ctor = "pending"
    /\ ctor' = "done"
    /\ formsApi' = TRUE
    /\ UNCHANGED <<mutVars, providerForm, pages, starters, procVars, sent, replies, log, in, out>>

CtorInitializeFails ==
    /\ ctor = "pending"
    /\ ctor' = "failed"
    /\ log' = Append(log, Message("Failed to initialize Google Forms API:",
                                  <<Interpolated("message", AuthError)>>))
    /\ UNCHANGED <<mutVars, providerForm, pages, formsApi, starters, procVars, sent, replies, in,
                   out>>

\* The initializeApi call that ensureInitialized awaits completes.
Initialized(p) ==
    /\ pc[p] = "auth"
    /\ formsApi' = TRUE
    /\ pc' = [pc EXCEPT ![p] = "rateLimit"]
    /\ UNCHANGED <<mutVars, providerForm, pages, ctor, starters, op, call, form, pageToken,
                   allResponses, result, sent, replies, log, in, out>>

\* It fails: the error leaves ensureInitialized and the method as it is.
InitializeFails(p) ==
    /\ pc[p] = "auth"
    /\ log' = Append(log, Message("Failed to initialize Google Forms API:",
                                  <<Interpolated("message", AuthError)>>))
    /\ Fail(p, AuthError)
    /\ UNCHANGED <<mutVars, providerForm, pages, formsApi, ctor, starters, op, call, form,
                   pageToken, allResponses, sent, replies, in, out>>

\* The method of the provider's API a request method calls.
ApiOf(c) ==
    CASE c = "getForm"          -> "forms.get"
      [] c = "createForm"       -> "forms.create"
      [] c = "batchUpdateForm"  -> "forms.batchUpdate"
      [] c = "getFormResponses" -> "forms.responses.list"

\* The request the pending call of p makes.
Request(p) ==
    [proc      |-> p,
     api       |-> ApiOf(call[p]),
     formId    |-> op[p].formId,
     pageToken |-> IF call[p] = "getFormResponses" THEN pageToken[p] ELSE None]

\* Mutant of SendRequest: the request does not wait for the timer, nor for
\* the API client.
SendRequestUndelayed(p) ==
    /\ pc[p] \in {"auth", "rateLimit"}
    /\ sent' = Append(sent, Request(p))
    /\ pc' = [pc EXCEPT ![p] = "await"]
    /\ UNCHANGED <<mutVars, providerForm, pages, formsApi, ctor, starters, op, call, form,
                   pageToken, allResponses, result, replies, log, in, out>>

\* The rateLimit timer fires and the request is sent.
SendRequest(p) ==
    /\ pc[p] = "rateLimit"
    /\ sent' = Append(sent, Request(p))
    /\ pc' = [pc EXCEPT ![p] = "await"]
    /\ UNCHANGED <<mutVars, providerForm, pages, formsApi, ctor, starters, op, call, form,
                   pageToken, allResponses, result, replies, log, in, out>>

\* An answer of the provider to the pending request of p: a page (or the
\* form), or a failure.
Reply(p, ok, responses, nextPageToken) ==
    [proc |-> p, api |-> Request(p).api, ok |-> ok, responses |-> responses,
     nextPageToken |-> nextPageToken, error |-> None]

FailureReply(p, e) == [Reply(p, FALSE, None, None) EXCEPT !.error = Some(e)]

\* forms.get resolves: getForm returns and the caller goes on to
\* getAllFormResponses, which calls getFormResponses with no page token.
FormReturned(p) ==
    /\ pc[p] = "await"
    /\ call[p] = "getForm"
    /\ op[p].formId = KnownFormId
    /\ replies' = Append(replies, Reply(p, TRUE, None, None))
    /\ form' = [form EXCEPT ![p] = Some(providerForm)]
    /\ EnterCall(p, "getFormResponses")
    /\ UNCHANGED <<mutVars, providerForm, pages, formsApi, ctor, starters, op, pageToken,
                   allResponses, result, sent, log, in, out>>

\* Mutant of Collected: a response already collected is not collected again.
RECURSIVE AppendNew(_, _)
AppendNew(all, more) ==
    IF more = <<>> THEN all
    ELSE AppendNew(IF \E i \in 1..Len(all) : all[i] = Head(more)
                   THEN all ELSE Append(all, Head(more)),
                   Tail(more))

CollectedDistinct(all, page) ==
    AppendNew(all, IF IsSome(page.responses) THEN Get(page.responses) ELSE <<>>)

\* Mutant of Collected: the invocations collect into one list they share.
CollectedShared(all, page) ==
    allResponses["p1"] \o allResponses["p2"]
        \o (IF IsSome(page.responses) THEN Get(page.responses) ELSE <<>>)

\* allResponses after a page: if (response.responses) allResponses.push(...)
Collected(all, page) ==
    all \o (IF IsSome(page.responses) THEN Get(page.responses) ELSE <<>>)

\* Mutant of MorePages: while (pageToken !== undefined)
MorePagesIfDefined(token) == IsSome(token)

\* while (pageToken)
MorePages(token) == Truthy(token)

\* What the method of operation o returns or raises once the form f (if it
\* fetches one) and all responses are fetched.
FinishFetched(o, f, all, now) ==
    CASE o.name = "getAllFormResponses"     -> Returned(all)
      [] o.name = "generateResponseSummary" -> SummaryOf(Get(f), all)
      [] o.name = "exportResponses"         -> ExportFetched(Get(f), all, o.options, now)

\* forms.responses.list resolves with a page for getAllFormResponses: it is
\* collected, and either the next page is asked for or the method completes.
PageReturned(p) ==
    /\ pc[p] = "await"
    /\ call[p] = "getFormResponses"
    /\ op[p].name # "getFormSummary"
    /\ op[p].formId = KnownFormId
    /\ PageIndex(pageToken[p]) > 0
    /\ LET page == pages[PageIndex(pageToken[p])]
           all  == Collected(allResponses[p], page)
       IN  /\ replies' = Append(replies, Reply(p, TRUE, page.responses, page.nextPageToken))
           /\ allResponses' = [allResponses EXCEPT ![p] = all]
           /\ pageToken' = [pageToken EXCEPT ![p] = page.nextPageToken]
           /\ IF MorePages(page.nextPageToken)
              THEN EnterCall(p, "getFormResponses") /\ UNCHANGED result
              ELSE /\ \E now \in Clock : Settle(p, FinishFetched(op[p], form[p], all, now))
                   /\ UNCHANGED call
    /\ UNCHANGED <<mutVars, providerForm, pages, formsApi, ctor, starters, op, form, sent, log,
                   in, out>>

\* The line the catch block of call c writes with console.error.
LoggedError(c, formId, e) ==
    CASE c = "getForm" ->
            Message("Error getting form ${formId}:",
                    <<Interpolated("formId", formId), Interpolated("message", e)>>)
      [] c = "createForm" ->
            Message("Error creating form:", <<Interpolated("message", e)>>)
      [] c = "batchUpdateForm" ->
            Message("Error updating form ${formId}:",
                    <<Interpolated("formId", formId), Interpolated("message", e)>>)
      [] c = "getFormResponses" ->
            Message("Error getting responses for form ${formId}:",
                    <<Interpolated("formId", formId), Interpolated("message", e)>>)

\* Mutant of ThrownError: the form id is put into the message thrown too.
ThrownErrorWithFormId(c, formId, e) ==
    Message(IF c = "getForm" THEN "Failed to get form ${formId}: ${error.message}"
                             ELSE "Failed to get responses for form ${formId}: ${error.message}",
            <<Interpolated("formId", formId), Interpolated("message", e)>>)

\* The error the catch block of call c throws.
ThrownError(c, formId, e) ==
    Message(CASE c = "getForm"          -> "Failed to get form: ${error.message}"
              [] c = "createForm"       -> "Failed to create form: ${error.message}"
              [] c = "batchUpdateForm"  -> "Failed to update form: ${error.message}"
              [] c = "getFormResponses" -> "Failed to get form responses: ${error.message}",
            <<Interpolated("message", e)>>)

\* The failures the provider may answer the pending request of p with.
FailuresOf(p) ==
    IF call[p] = "createForm" THEN ProviderErrors
    ELSE IF op[p].formId # KnownFormId THEN {NotFoundError}
    ELSE IF call[p] = "getFormResponses" /\ PageIndex(pageToken[p]) = 0
         THEN {InvalidTokenError}
    ELSE ProviderErrors

\* Mutant of Caught: the failed call is made again.
CaughtRetrying(p, e) ==
    /\ log' = Append(log, LoggedError(call[p], op[p].formId, e))
    /\ EnterCall(p, call[p])
    /\ UNCHANGED <<result, sent>>

\* The catch block of getForm / getFormResponses: nothing above it catches,
\* so the method's promise rejects.
Caught(p, e) ==
    /\ log' = Append(log, LoggedError(call[p], op[p].formId, e))
    /\ Fail(p, ThrownError(call[p], op[p].formId, e))
    /\ UNCHANGED <<call, sent>>

\* The request of p fails.
RequestFails(p, e) ==
    /\ pc[p] = "await"
    /\ e \in FailuresOf(p)
    /\ replies' = Append(replies, FailureReply(p, e))
    /\ Caught(p, e)
    /\ UNCHANGED <<mutVars, providerForm, pages, formsApi, ctor, starters, op, form, pageToken,
                   allResponses, in, out>>

(***************************************************************************)
(* The data of the model                                                   *)
(***************************************************************************)
Question(id, kind, choiceType, paragraph) ==
    [questionId |-> id, kind |-> kind, choiceType |-> choiceType, paragraph |-> paragraph]

Item(title, question) == [title |-> title, question |-> question]

Answer(values) == [textAnswers |-> values]

Response(id, created, submitted, answers) ==
    [responseId |-> id, createTime |-> created, lastSubmittedTime |-> submitted,
     respondentEmail |-> None, answers |-> answers]

Q1 == <<"q", "1">>

Q2 == <<"q", "2">>

Q9 == <<"q", "9">>

FormOf(items) ==
    [formId |-> KnownFormId, title |-> <<"P", "o", "l", "l">>, description |-> None,
     items |-> items]

\* A scale question, an item that is no question, an untitled choice question.
FormA ==
    FormOf(Some(<<Item(Some(<<"R", "a", "t", "e">>), Some(Question(Q1, "scaleQuestion", "", FALSE))),
                  Item(Some(<<"I", "n", "t", "r", "o">>), None),
                  Item(None, Some(Question(Q2, "choiceQuestion", "CHECKBOX", FALSE)))>>))

\* A form without items.
FormB == FormOf(None)

RespA ==
    Response(<<"r", "1">>, Some(<<"0", "9">>), None,
             Some(<<[k |-> Q1, v |-> Answer(Some(<<<<"4">>>>))],
                    [k |-> Q2, v |-> Answer(Some(<<<<"x">>, <<"y">>>>))]>>))

\* A response without the answers object.
RespB == Response(<<"r", "2">>, Some(<<"1", "0">>), Some(<<"1", "1">>), None)

\* A response with an answer to a question that is not on the form.
RespC ==
    Response(<<"r", "3">>, None, None,
             Some(<<[k |-> Q9, v |-> Answer(Some(<<<<"z">>>>))]>>))

Q3 == <<"q", "3">>

\* A rating question and a paragraph question.
FormRating ==
    FormOf(Some(<<Item(Some(<<"R", "a", "t", "e">>), Some(Question(Q1, "ratingQuestion", "", FALSE))),
                  Item(Some(<<"W", "h", "y">>), Some(Question(Q3, "textQuestion", "", TRUE)))>>))

\* A date question and a question of none of the kinds the analysis knows.
FormDates ==
    FormOf(Some(<<Item(Some(<<"W", "h", "e", "n">>), Some(Question(Q1, "dateQuestion", "", FALSE))),
                  Item(None, Some(Question(Q2, "rowQuestion", "", FALSE)))>>))

\* A response whose answer to q1 is the one-digit number d.
Scored(d, created, submitted, others) ==
    Response(<<"s", d>>, created, submitted,
             Some(<<[k |-> Q1, v |-> Answer(Some(<<<<d>>>>))]>> \o others))

Resp1 == Scored("1", Some(<<"0", "7">>), None,
                <<[k |-> Q2, v |-> Answer(Some(<<<<"x">>>>))]>>)

Resp2 == Scored("2", None, Some(<<"1", "2">>),
                <<[k |-> Q3, v |-> Answer(Some(<<<<"g", "o", "o", "d", " ", "j", "o", "b">>>>))]>>)

Resp3 == Scored("3", None, None, <<>>)

\* An answer to a question that is not on the form besides the one to q1.
Resp5 == Scored("5", Some(<<"0", "8">>), Some(<<>>),
                <<[k |-> Q9, v |-> Answer(Some(<<<<"z">>>>))]>>)

\* A response whose answers object is empty.
RespEmpty == Response(<<"r", "4">>, None, None, Some(<<>>))

\* A scale answer that is no number, an answer without text values, and an
\* empty text.
RespBad ==
    Response(<<"r", "5">>, None, None,
             Some(<<[k |-> Q1, v |-> Answer(Some(<<<<"x">>>>))],
                    [k |-> Q2, v |-> Answer(None)],
                    [k |-> Q3, v |-> Answer(Some(<<<<>>>>))]>>))

SummaryForms == {FormA, FormRating, FormB, FormDates}

SummaryResponses == {Resp1, Resp2, Resp3, RespA, Resp5, RespB, RespEmpty, RespBad}

MaxResponses == 4

PageContents == {None, Some(<<RespA>>), Some(<<RespB, RespA>>)}

MaxPages == 3

\* The page lists of the provider: every page but the last names the next
\* one, the last has no nextPageToken or an empty one.
PageLists ==
    {[i \in 1..Len(contents) |->
        [responses     |-> contents[i],
         nextPageToken |-> IF i < Len(contents) THEN Some(Token(i + 1)) ELSE last]] :
        contents \in SeqsUpTo(PageContents, MaxPages) \ {<<>>}, last \in {None, Some(<<>>)}}

NoInput == <<>>

InitProcs ==
    /\ pc = [p \in Procs |-> "idle"]
    /\ op = [p \in Procs |-> [name |-> "", formId |-> <<>>, options |-> NoOptions]]
    /\ call = [p \in Procs |-> ""]
    /\ form = [p \in Procs |-> None]
    /\ pageToken = [p \in Procs |-> None]
    /\ allResponses = [p \in Procs |-> <<>>]
    /\ result = [p \in Procs |-> None]
    /\ sent = <<>>
    /\ replies = <<>>
    /\ log = <<>>

\* The service is constructed, its initializeApi call is in flight, and one
\* method call is to come.
Init ==
    /\ providerForm \in {FormA, FormB}
    /\ pages \in PageLists
    /\ formsApi = FALSE
    /\ ctor = "pending"
    /\ starters = {"p1"}
    /\ InitProcs
    /\ NoMutation
    /\ in = NoInput
    /\ out = None

Next ==
    \/ \E p \in Procs, o \in Operations : Start(p, o)
    \/ CtorInitialized
    \/ CtorInitializeFails
    \/ \E p \in Procs : Initialized(p)
    \/ \E p \in Procs : InitializeFails(p)
    \/ \E p \in Procs : SendRequest(p)
    \/ \E p \in Procs : FormReturned(p)
    \/ \E p \in Procs : PageReturned(p)
    \/ \E p \in Procs, e \in ProviderErrors \cup {NotFoundError, InvalidTokenError} :
            RequestFails(p, e)

Spec == Init /\ [][Next]_vars

\* Two pages of responses.
TwoPages ==
    <<[responses |-> Some(<<RespA>>), nextPageToken |-> Some(Token(2))],
      [responses |-> Some(<<Resp1, RespA>>), nextPageToken |-> None]>>

\* Two method calls are to come on the one instance the module exports, in
\* any interleaving of their steps.
InitConcurrent ==
    /\ providerForm = FormA
    /\ pages = TwoPages
    /\ formsApi = FALSE
    /\ ctor = "pending"
    /\ starters = Procs
    /\ InitProcs
    /\ NoMutation
    /\ in = NoInput
    /\ out = None

\* The calls made concurrently: summaries and exports, of the form the
\* provider holds and of one it does not hold.
ConcurrentOperations ==
    {o \in Operations :
        \/ o.name = "generateResponseSummary"
        \/ o.name = "exportResponses" /\ o.options.format \in {"json", "csv"}
                                      /\ ~o.options.includeMetadata}

NextConcurrent ==
    \/ \E p \in Procs, o \in ConcurrentOperations : Start(p, o)
    \/ CtorInitialized
    \/ CtorInitializeFails
    \/ \E p \in Procs : Initialized(p)
    \/ \E p \in Procs : InitializeFails(p)
    \/ \E p \in Procs : SendRequest(p)
    \/ \E p \in Procs : FormReturned(p)
    \/ \E p \in Procs : PageReturned(p)
    \/ \E p \in Procs, e \in ProviderErrors \cup {NotFoundError, InvalidTokenError} :
            RequestFails(p, e)

SpecConcurrent == InitConcurrent /\ [][NextConcurrent]_vars

(***************************************************************************)
(* The summary as a function of what was fetched: generateResponseSummary  *)
(* after its two awaits, for a form and a response list the provider       *)
(* holds on a single page.                                                 *)
(***************************************************************************)
InitSummary ==
    /\ in \in [form : SummaryForms, responses : SeqsUpTo(SummaryResponses, MaxResponses)]
    /\ providerForm = in.form
    /\ pages = <<[responses |-> Some(in.responses), nextPageToken |-> None]>>
    /\ formsApi = TRUE
    /\ ctor = "done"
    /\ starters = {}
    /\ InitProcs
    /\ NoMutation
    /\ out = None

Summarize ==
    /\ out = None
    /\ out' = Some(SummaryOf(in.form, in.responses))
    /\ UNCHANGED <<mutVars, providerForm, pages, formsApi, ctor, starters, procVars, sent, replies,
                   log, in>>

NextSummary == Summarize

SpecSummary == InitSummary /\ [][NextSummary]_vars

\* The fetch machinery at rest, for the specifications of pure computations.
AtRest ==
    /\ providerForm = FormA
    /\ pages = <<[responses |-> None, nextPageToken |-> None]>>
    /\ formsApi = TRUE
    /\ ctor = "done"
    /\ starters = {}
    /\ InitProcs
    /\ NoMutation
    /\ out = None

\* The variables a pure computation leaves alone.
restVars ==
    <<providerForm, pages, formsApi, ctor, starters, procVars, sent, replies, log, in,
      mutVars>>

(***************************************************************************)
(* analyzeChoiceQuestion over the answers to one choice question           *)
(***************************************************************************)
\* Answers to a choice question: one value, two values (multi-select), a
\* value typed into "Other", no text answers, an empty list, an empty text.
ChoiceAnswers ==
    {Answer(Some(<<<<"x">>>>)), Answer(Some(<<<<"x">>, <<"y">>>>)),
     Answer(Some(<<S_constructor>>)), Answer(Some(<<S_proto, <<"y">>>>)),
     Answer(None), Answer(Some(<<>>)), Answer(Some(<<<<>>>>))}

MaxAnswers == 3

InitChoice ==
    /\ in \in [answers : SeqsUpTo(ChoiceAnswers, MaxAnswers)]
    /\ AtRest

Tally ==
    /\ out = None
    /\ out' = Some(analyzeChoiceQuestion(in.answers))
    /\ UNCHANGED restVars

NextChoice == Tally

SpecChoice == InitChoice /\ [][NextChoice]_vars

(***************************************************************************)
(* analyzeTextQuestion over the answers to one text question               *)
(***************************************************************************)
TextGood ==
    <<"g", "o", "o", "d", " ", "s", "e", "r", "v", "i", "c", "e", ",", " ",
      "g", "o", "o", "d", " ", "f", "o", "o", "d">>

TextNumber == <<"G", "o", "o", "d", " ", "g", "o", "o", "d", " ", "1", "0", "0">>

\* Eleven different words.
TextEleven ==
    <<"a", "a", "a", " ", "b", "b", "b", " ", "c", "c", "c", " ", "d", "d", "d", " ",
      "e", "e", "e", " ", "f", "f", "f", " ", "g", "g", "g", " ", "h", "h", "h", " ",
      "i", "i", "i", " ", "j", "j", "j", " ", "k", "k", "k">>

TextShort == <<"k", "k", "k", " ", "n", "o", "-", "g", "o", " ", "o", "k">>

TextPadded == <<" ", "k", "k", "k", "\t", " ">>

TextAnswers ==
    {Answer(Some(<<TextGood>>)), Answer(Some(<<TextNumber>>)), Answer(Some(<<TextEleven>>)),
     Answer(Some(<<TextShort>>)), Answer(Some(<<TextPadded>>)), Answer(Some(<<<<>>>>)),
     Answer(None)}

InitText ==
    /\ in \in [answers : SeqsUpTo(TextAnswers, MaxAnswers)]
    /\ AtRest

CountWords ==
    /\ out = None
    /\ out' = Some(analyzeTextQuestion(in.answers))
    /\ UNCHANGED restVars

NextText == CountWords

SpecText == InitText /\ [][NextText]_vars

(***************************************************************************)
(* exportResponses after its two awaits, as a function of what was fetched *)
(***************************************************************************)
\* A question whose title has a comma, an item that is no question, an
\* untitled question.
FormComma ==
    FormOf(Some(<<Item(Some(<<"a", ",", "b">>), Some(Question(Q1, "textQuestion", "", FALSE))),
                  Item(Some(<<"I", "n", "t", "r", "o">>), None),
                  Item(None, Some(Question(Q2, "choiceQuestion", "CHECKBOX", FALSE)))>>))

\* A value with a comma, and two values for one question.
Exp1 ==
    Response(<<"e", "1">>, Some(<<"0", "9">>), None,
             Some(<<[k |-> Q1, v |-> Answer(Some(<<<<"a", ",", "b">>>>))],
                    [k |-> Q2, v |-> Answer(Some(<<<<"x">>, <<"y">>>>))]>>))

\* A value with double quotes, an answer to a question that is not on the
\* form, and a respondent e-mail.
Exp2 ==
    [Response(<<"e", "2">>, Some(<<"1", "0">>), Some(<<"1", "1">>),
              Some(<<[k |-> Q1, v |-> Answer(Some(<<<<"s", "a", "y", " ", "\"", "h", "i", "\"">>>>))],
                     [k |-> Q9, v |-> Answer(Some(<<<<"z">>>>))]>>))
        EXCEPT !.respondentEmail = Some(<<"m", "@", "x">>)]

\* A value of two lines, and an answer without text answers.
Exp3 ==
    Response(<<"e", "3">>, None, None,
             Some(<<[k |-> Q1, v |-> Answer(Some(<<<<"l", "\n", "m">>>>))],
                    [k |-> Q2, v |-> Answer(None)]>>))

ExportForms == {FormComma, FormA, FormB}

\* Every combination of the export options.
OptionCombinations ==
    [format : {"json", "csv", "xml"}, includeMetadata : BOOLEAN,
     includeTimestamps : BOOLEAN, flattenResponses : BOOLEAN]

ExportResponses == {Exp1, Exp2, Exp3, RespEmpty, RespB}

MaxExported == 2

InitExport ==
    /\ in \in [form : ExportForms, responses : SeqsUpTo(ExportResponses, MaxExported),
               options : OptionCombinations]
    /\ AtRest

Export ==
    /\ out = None
    /\ \E now \in Clock :
        out' = Some(ExportFetched(in.form, in.responses, in.options, now))
    /\ UNCHANGED restVars

NextExport == Export

SpecExport == InitExport /\ [][NextExport]_vars

(***************************************************************************)
(* The get-form-responses tool after its awaits                            *)
(***************************************************************************)
S_id == <<"i", "d">>

S_values == <<"v", "a", "l", "u", "e", "s">>

S_questionId == <<"q", "u", "e", "s", "t", "i", "o", "n", "I", "d">>

S_formTitle == <<"f", "o", "r", "m", "T", "i", "t", "l", "e">>

S_statistics == <<"s", "t", "a", "t", "i", "s", "t", "i", "c", "s">>

S_total == <<"t", "o", "t", "a", "l">>

S_responseRate == <<"r", "e", "s", "p", "o", "n", "s", "e", "R", "a", "t", "e">>

S_averageCompletionTime ==
    <<"a", "v", "e", "r", "a", "g", "e", "C", "o", "m", "p", "l", "e", "t", "i", "o", "n",
      "T", "i", "m", "e">>

S_timeRange == <<"t", "i", "m", "e", "R", "a", "n", "g", "e">>

S_earliest == <<"e", "a", "r", "l", "i", "e", "s", "t">>

S_latest == <<"l", "a", "t", "e", "s", "t">>

JsonNull == [t |-> "null"]

\* One [questionId, answer] entry written into formatted.answers.
FormatAnswer(answers, theForm, entry) ==
    LET questionItem  == findQuestionById(theForm, entry.k)
        questionTitle == IF IsSome(questionItem) /\ Truthy(Get(questionItem).title)
                         THEN Get(Get(questionItem).title)
                         ELSE entry.k
        values        == entry.v.textAnswers
        formattedAnswer ==
            Stringify(
              <<[k |-> S_questionId, v |-> Some(JsonString(entry.k))],
                [k |-> S_values,
                 v |-> IF IsSome(values)
                       THEN Some(JsonArray(MapSeq(Get(values), JsonString)))
                       ELSE None],
                [k |-> S_value,
                 v |-> IF IsSome(values) /\ Len(Get(values)) = 1
                       THEN Some(JsonString(Get(values)[1]))
                       ELSE None]>>)
    IN  SetKey(answers, questionTitle, Some(formattedAnswer))

RECURSIVE FormatAnswers(_, _, _)
FormatAnswers(answers, theForm, entries) ==
    IF entries = <<>> THEN answers
    ELSE FormatAnswers(FormatAnswer(answers, theForm, Head(entries)), theForm,
                       Tail(entries))

\* formatResponseForDisplay of a response whose answers object is present.
formatResponseForDisplay(response, theForm) ==
    Stringify(
      <<[k |-> S_id, v |-> Some(JsonString(response.responseId))],
        [k |-> S_respondentEmail, v |-> StringProperty(response.respondentEmail)],
        [k |-> S_createTime, v |-> StringProperty(response.createTime)],
        [k |-> S_lastSubmittedTime, v |-> StringProperty(response.lastSubmittedTime)],
        [k |-> S_answers,
         v |-> Some(Stringify(FormatAnswers(<<>>, theForm, Get(response.answers))))]>>)

\* new Date(time).getTime(): the time stamps of the model are counts of
\* seconds; None stands for NaN.
getTime(time) ==
    IF time # <<>> /\ \A i \in 1..Len(time) : IsDigit(time[i])
    THEN Some(1000 * DigitsValue(time, 0))
    ELSE None

\* Mutant of CompletionTimes: a difference of zero is counted too.
CompletionTimesWithZero(responses) ==
    LET completionTime(r) ==
            IF /\ Truthy(r.createTime) /\ Truthy(r.lastSubmittedTime)
               /\ IsSome(getTime(Get(r.createTime)))
               /\ IsSome(getTime(Get(r.lastSubmittedTime)))
            THEN Some(Get(getTime(Get(r.lastSubmittedTime))) - Get(getTime(Get(r.createTime))))
            ELSE None
        counted(t) == IsSome(t) /\ Get(t) >= 0
    IN  MapSeq(SelectSeq(MapSeq(responses, completionTime), counted), Get)

\* The completion times calculateResponseStats adds up, in milliseconds.
CompletionTimes(responses) ==
    LET completionTime(r) ==
            IF /\ Truthy(r.createTime) /\ Truthy(r.lastSubmittedTime)
               /\ IsSome(getTime(Get(r.createTime)))
               /\ IsSome(getTime(Get(r.lastSubmittedTime)))
            THEN Some(Get(getTime(Get(r.lastSubmittedTime))) - Get(getTime(Get(r.createTime))))
            ELSE None
        positive(t) == IsSome(t) /\ Get(t) > 0
    IN  MapSeq(SelectSeq(MapSeq(responses, completionTime), positive), Get)

RECURSIVE Sum(_)
Sum(s) == IF s = <<>> THEN 0 ELSE Head(s) + Sum(Tail(s))

\* Math.round(total / count / 1000) for total >= 0 and count > 0
RoundedSeconds(total, count) == (2 * total + 1000 * count) \div (2000 * count)

\* responses.reduce(...) of timeRange.earliest
RECURSIVE Earliest(_, _)
Earliest(earliest, responses) ==
    IF responses = <<>> THEN earliest
    ELSE LET r    == Head(responses)
             time == IF Truthy(r.createTime) THEN r.createTime ELSE r.lastSubmittedTime
         IN  Earliest(IF ~Truthy(time) THEN earliest
                      ELSE IF ~IsSome(earliest) \/ StrLess(Get(time), Get(earliest))
                           THEN time
                      ELSE earliest,
                      Tail(responses))

\* responses.reduce(...) of timeRange.latest
RECURSIVE Latest(_, _)
Latest(latest, responses) ==
    IF responses = <<>> THEN latest
    ELSE LET r    == Head(responses)
             time == IF Truthy(r.lastSubmittedTime) THEN r.lastSubmittedTime
                     ELSE r.createTime
         IN  Latest(IF ~Truthy(time) THEN latest
                    ELSE IF ~IsSome(latest) \/ StrLess(Get(latest), Get(time))
                         THEN time
                    ELSE latest,
                    Tail(responses))

NullableString(s) == IF IsSome(s) THEN JsonString(Get(s)) ELSE JsonNull

calculateResponseStats(responses) ==
    LET times == CompletionTimes(responses)
    IN  IF Len(responses) = 0
        THEN JsonObject(<<[k |-> S_total, v |-> JsonNumber(0)],
                          [k |-> S_responseRate, v |-> JsonNumber(0)],
                          [k |-> S_averageCompletionTime, v |-> JsonNull]>>)
        ELSE JsonObject(
               <<[k |-> S_total, v |-> JsonNumber(Len(responses))],
                 [k |-> S_averageCompletionTime,
                  v |-> IF Len(times) > 0
                        THEN JsonNumber(RoundedSeconds(Sum(times), Len(times)))
                        ELSE JsonNull],
                 [k |-> S_timeRange,
                  v |-> JsonObject(
                          <<[k |-> S_earliest,
                             v |-> NullableString(Earliest(None, responses))],
                            [k |-> S_latest,
                             v |-> NullableString(Latest(None, responses))]>>)]>>)

\* What the tool hands back: the text of its one content part.
ToolText(text) == [isError |-> FALSE, text |-> text]

\* `Error: ${error.message}` with isError set
ToolError(error) == [isError |-> TRUE, text |-> Message("Error: ", <<error>>)]

\* responses.slice(0, limit) when limit is given and positive
Limited(responses, limit) ==
    IF IsSome(limit) /\ Get(limit) > 0
    THEN SubSeq(responses, 1, IF Get(limit) < Len(responses) THEN Get(limit)
                              ELSE Len(responses))
    ELSE responses

\* The get-form-responses handler once the form and all the responses of
\* cleanFormId are fetched.  Object.entries(response.answers) raises a
\* TypeError for a response without the answers object.
getFormResponsesTool(theForm, fetched, limit, format) ==
    IF format = "csv"
    THEN LET csvData == exportAsCsv(theForm, fetched,
                                    [format |-> "csv", includeMetadata |-> FALSE,
                                     includeTimestamps |-> TRUE,
                                     flattenResponses |-> TRUE])
         IN  IF csvData.threw THEN ToolError(csvData.error) ELSE ToolText(csvData.value)
    ELSE LET responses == Limited(fetched, limit)
             format1(response) == formatResponseForDisplay(response, theForm)
         IN  IF \E i \in 1..Len(responses) : ~IsSome(responses[i].answers)
             THEN ToolError(TypeError)
             ELSE ToolText(JsonObject(
                    <<[k |-> S_formId, v |-> JsonString(theForm.formId)],
                      [k |-> S_formTitle, v |-> JsonString(theForm.title)],
                      [k |-> S_statistics, v |-> calculateResponseStats(responses)],
                      [k |-> S_responses,
                       v |-> JsonArray(MapSeq(responses, format1))]>>))

\* limit: z.number().optional(), here absent or an integer
MaxLimit == 3

Limits == {None} \cup {Some(n) : n \in -1..MaxLimit}

InitTool ==
    /\ in \in [form : ExportForms, responses : SeqsUpTo(ExportResponses, MaxExported),
               limit : Limits, format : {"json", "csv"}]
    /\ AtRest

CallTool ==
    /\ out = None
    /\ out' = Some(getFormResponsesTool(in.form, in.responses, in.limit, in.format))
    /\ UNCHANGED restVars

NextTool == CallTool

SpecTool == InitTool /\ [][NextTool]_vars

(***************************************************************************)
(* The form-mutation operations of googleFormsService.js and               *)
(* googleFormsService.ts against the provider                              *)
(***************************************************************************)
Services == {"googleFormsService.js", "googleFormsService.ts"}

MutationNames == {"addQuestion", "addQuestionWithOptions", "createForm", "updateFormSettings"}

MaxRevision == 4

MaxUpdates == 2

\* The field of writeControl the service fills in.
ControlOf(service) ==
    IF service = "googleFormsService.js" THEN "targetRevisionId" ELSE "requiredRevisionId"

\* The operation awaits forms.get before forms.batchUpdate;
\* updateFormSettings of googleFormsService.ts sends its update at once.
ReadsFirst(service, name) ==
    ~(service = "googleFormsService.ts" /\ name = "updateFormSettings")

\* The revision id written into writeControl: the revisionId constant of
\* the operation, or '' where the operation has none.
SentRevisionId(m) == IF ReadsFirst(m.service, m.name) THEN m.revisionId ELSE None

\* What the provider may do with a batchUpdate.  requiredRevisionId: the
\* request is rejected unless the id is the latest revision.
\* targetRevisionId: the changes are transformed against the later
\* revisions and applied, or rejected when the id is too far behind.  An
\* empty id: the provider either takes the write control as absent and
\* applies the update to the latest revision, or rejects the request.
Outcomes(control, revisionId, latest) ==
    IF ~IsSome(revisionId) THEN {"applied", "rejected"}
    ELSE IF Get(revisionId) = latest THEN {"applied"}
    ELSE IF control = "requiredRevisionId" THEN {"rejected"}
    ELSE {"merged", "rejected"}

\* A call of one of the four operations starts and runs to its first
\* await.  given: a description (createForm) or at least one setting
\* (updateFormSettings) is passed.
StartMutation(service, name, given) ==
    /\ mutation.pc = "idle"
    /\ Len(updates) < MaxUpdates
    /\ revision < MaxRevision
    /\ given \/ name \in {"createForm", "updateFormSettings"}
    /\ mutation' =
         [service |-> service, name |-> name, revisionId |-> None,
          pc |-> IF name = "createForm"
                 THEN (IF given THEN "creating" ELSE "creatingOnly")
                 ELSE IF name = "updateFormSettings" /\ ~given THEN "failed"
                 ELSE IF ReadsFirst(service, name) THEN "reading"
                 ELSE "writing"]
    /\ UNCHANGED <<revision, updates>>

\* forms.create answers: the new form is at its first revision.
Created ==
    /\ mutation.pc \in {"creating", "creatingOnly"}
    /\ revision' = 1
    /\ mutation' =
         [mutation EXCEPT !.pc =
             IF mutation.pc = "creatingOnly" THEN "done"
             ELSE IF mutation.service = "googleFormsService.js" THEN "delay"
             ELSE "reading"]
    /\ UNCHANGED updates

\* The 200 ms timer of createForm (googleFormsService.js) fires.
Delayed ==
    /\ mutation.pc = "delay"
    /\ mutation' = [mutation EXCEPT !.pc = "reading"]
    /\ UNCHANGED <<revision, updates>>

\* forms.get answers: const revisionId = currentForm.data.revisionId || ''
ReadReturned ==
    /\ mutation.pc = "reading"
    /\ mutation' = [mutation EXCEPT !.pc = "writing", !.revisionId = Some(revision)]
    /\ UNCHANGED <<revision, updates>>

\* forms.create or forms.get fails: the catch block logs and rethrows.
MutationRequestFails ==
    /\ mutation.pc \in {"creating", "creatingOnly", "reading"}
    /\ mutation' = [mutation EXCEPT !.pc = "failed"]
    /\ UNCHANGED <<revision, updates>>

\* The provider processes the forms.batchUpdate of the operation and
\* answers; a rejection is logged and rethrown by the catch block.
BatchUpdated ==
    /\ mutation.pc = "writing"
    /\ \E outcome \in Outcomes(ControlOf(mutation.service), SentRevisionId(mutation),
                               revision) :
        /\ updates' = Append(updates,
                             [service    |-> mutation.service,
                              name       |-> mutation.name,
                              control    |-> ControlOf(mutation.service),
                              revisionId |-> SentRevisionId(mutation),
                              read       |-> mutation.revisionId,
                              latest     |-> revision,
                              outcome    |-> outcome])
        /\ revision' = IF outcome = "rejected" THEN revision ELSE revision + 1
        /\ mutation' = [mutation EXCEPT !.pc = IF outcome = "rejected" THEN "failed"
                                               ELSE "done"]

\* The caller takes the result or the error of the call.
MutationSettled ==
    /\ mutation.pc \in {"done", "failed"}
    /\ mutation' = Idle
    /\ UNCHANGED <<revision, updates>>

\* Another writer updates the form while the call is between its awaits.
OtherWriter ==
    /\ mutation.pc \in {"delay", "reading", "writing"}
    /\ revision + 1 < MaxRevision
    /\ revision' = revision + 1
    /\ UNCHANGED <<mutation, updates>>

mutRestVars ==
    <<providerForm, pages, formsApi, ctor, starters, procVars, sent, replies, log, in, out>>

InitMutate ==
    /\ AtRest
    /\ in = NoInput

NextMutate ==
    \/ /\ \E service \in Services, name \in MutationNames, given \in BOOLEAN :
            StartMutation(service, name, given)
       /\ UNCHANGED mutRestVars
    \/ Created /\ UNCHANGED mutRestVars
    \/ Delayed /\ UNCHANGED mutRestVars
    \/ ReadReturned /\ UNCHANGED mutRestVars
    \/ MutationRequestFails /\ UNCHANGED mutRestVars
    \/ BatchUpdated /\ UNCHANGED mutRestVars
    \/ MutationSettled /\ UNCHANGED mutRestVars
    \/ OtherWriter /\ UNCHANGED mutRestVars

SpecMutate == InitMutate /\ [][NextMutate]_vars

(***************************************************************************)
(* analyzeScaleQuestion / analyzeRatingQuestion over the answers to one    *)
(* question                                                                *)
(***************************************************************************)
\* Answers to a scale or rating question: a number, a negative number, a
\* number after white space, a number with a fraction, a text that is no
\* number, an empty text, a second value only that is a number, no text
\* answers, an empty list of values.
ScaleAnswers ==
    {Answer(Some(<<<<"4">>>>)), Answer(Some(<<<<"-", "2">>>>)),
     Answer(Some(<<<<" ", "7">>>>)), Answer(Some(<<<<"3", ".", "7">>>>)),
     Answer(Some(<<<<"x">>>>)), Answer(Some(<<<<>>>>)),
     Answer(Some(<<<<"x">>, <<"5">>>>)), Answer(None), Answer(Some(<<>>))}

InitScale ==
    /\ in \in [kind : {"scaleQuestion", "ratingQuestion"},
               answers : SeqsUpTo(ScaleAnswers, MaxAnswers)]
    /\ AtRest

Analyze ==
    /\ out = None
    /\ out' = Some(TypeStatistics(Question(Q1, in.kind, "", FALSE), in.answers))
    /\ UNCHANGED restVars

NextScale == Analyze

SpecScale == InitScale /\ [][NextScale]_vars

(***************************************************************************)
(* calculateResponseStats over a list of responses                         *)
(***************************************************************************)
\* A response without answers created at one time and submitted at another.
Timed(id, created, submitted) == Response(<<"t", id>>, created, submitted, Some(<<>>))

\* Submitted one, two and four seconds after creation, at the time of
\* creation, before creation, without one of the time stamps, with a
\* lastSubmittedTime that is no date, and with an empty one.
StatsResponses ==
    {Timed("1", Some(<<"0", "5">>), Some(<<"0", "6">>)),
     Timed("2", Some(<<"0", "5">>), Some(<<"0", "7">>)),
     Timed("3", Some(<<"0", "5">>), Some(<<"0", "9">>)),
     Timed("4", Some(<<"0", "7">>), Some(<<"0", "7">>)),
     Timed("5", Some(<<"0", "9">>), Some(<<"0", "5">>)),
     Timed("6", None, Some(<<"0", "6">>)),
     Timed("7", Some(<<"0", "5">>), None),
     Timed("8", Some(<<"0", "5">>), Some(<<"x", "x">>)),
     Timed("9", Some(<<"0", "5">>), Some(<<>>))}

MaxTimed == 3

InitStats ==
    /\ in \in [responses : SeqsUpTo(StatsResponses, MaxTimed)]
    /\ AtRest

Calculate ==
    /\ out = None
    /\ out' = Some(calculateResponseStats(in.responses))
    /\ UNCHANGED restVars

NextStats == Calculate

SpecStats == InitStats /\ [][NextStats]_vars

(***************************************************************************)
(* Two exports of the same form, responses and options, one after the      *)
(* other                                                                   *)
(***************************************************************************)
InitTwice ==
    /\ in \in [form : ExportForms, responses : SeqsUpTo(ExportResponses, MaxExported),
               options : OptionCombinations]
    /\ AtRest

\* The first export; out is the list of the results so far.
ExportFirst ==
    /\ out = None
    /\ \E now \in Clock :
        out' = Some(<<ExportFetched(in.form, in.responses, in.options, now)>>)
    /\ UNCHANGED restVars

\* Mutant of ExportAgain: the responses of the first export are retained
\* and written again by the second.
ExportAgainRetaining ==
    /\ IsSome(out)
    /\ Len(Get(out)) = 1
    /\ \E now \in Clock :
        out' = Some(Append(Get(out),
                           ExportFetched(in.form, in.responses \o in.responses,
                                         in.options, now)))
    /\ UNCHANGED restVars

\* The second export, at the same reading of the clock or a later one.
ExportAgain ==
    /\ IsSome(out)
    /\ Len(Get(out)) = 1
    /\ \E now \in Clock :
        out' = Some(Append(Get(out),
                           ExportFetched(in.form, in.responses, in.options, now)))
    /\ UNCHANGED restVars

NextTwice == ExportFirst \/ ExportAgain

SpecTwice == InitTwice /\ [][NextTwice]_vars

(***************************************************************************)
(* The request methods of the service one by one, the form summary, and    *)
(* the get-response-summary tool, which asks for the response summary and  *)
(* then for the form summary of the same form.                             *)
(***************************************************************************)
NewFormId == <<"f", "3">>

\* The form forms.create answers with.
CreatedForm == [FormB EXCEPT !.formId = NewFormId]

\* The answer of forms.batchUpdate.
BatchUpdateResponse == [replies |-> <<>>]

\* a.lastSubmittedTime || a.createTime
SubmittedOrCreated(response) ==
    IF Truthy(response.lastSubmittedTime) THEN response.lastSubmittedTime
    ELSE IF Truthy(response.createTime) THEN response.createTime
    ELSE None

\* new Date(a.lastSubmittedTime || a.createTime || 0).getTime()
SortTime(response) ==
    IF IsSome(SubmittedOrCreated(response)) THEN getTime(Get(SubmittedOrCreated(response)))
    ELSE Some(0)

\* sortedResponses[0] of the page sorted latest first: the sort is stable,
\* and a comparison with a time that is no number leaves the order as it
\* is.
LatestResponse(responses) ==
    LET later(i, j) == /\ IsSome(SortTime(responses[i]))
                       /\ IsSome(SortTime(responses[j]))
                       /\ Get(SortTime(responses[i])) > Get(SortTime(responses[j]))
    IN  responses[CHOOSE i \in 1..Len(responses) :
                      /\ \A j \in 1..Len(responses) : ~later(j, i)
                      /\ \A j \in 1..(i - 1) : later(i, j)]

\* What getFormSummary returns for the form and the one page of responses it
\* asks for.
FormSummaryOf(theForm, page) ==
    [formId           |-> theForm.formId,
     title            |-> theForm.title,
     description      |-> theForm.description,
     responseCount    |-> IF IsSome(page.responses) THEN Len(Get(page.responses)) ELSE 0,
     questionCount    |-> Len(QuestionItems(theForm)),
     lastResponseTime |->
        IF IsSome(page.responses) /\ Len(Get(page.responses)) > 0
        THEN SubmittedOrCreated(LatestResponse(Get(page.responses)))
        ELSE None]

ServiceOperations ==
    {[name |-> n, formId |-> f, options |-> NoOptions] :
        n \in {"getFormSummary", "generateResponseSummary", "batchUpdateForm"}, f \in FormIds}
    \cup {[name |-> "createForm", formId |-> <<>>, options |-> NoOptions]}

\* forms.create resolves: createForm returns the new form.
FormCreated(p) ==
    /\ pc[p] = "await"
    /\ call[p] = "createForm"
    /\ replies' = Append(replies, Reply(p, TRUE, None, None))
    /\ Settle(p, Returned(CreatedForm))
    /\ UNCHANGED <<mutVars, providerForm, pages, formsApi, ctor, starters, op, call, form,
                   pageToken, allResponses, sent, log, in, out>>

\* forms.batchUpdate resolves: batchUpdateForm returns the provider's answer.
FormUpdated(p) ==
    /\ pc[p] = "await"
    /\ call[p] = "batchUpdateForm"
    /\ op[p].formId = KnownFormId
    /\ replies' = Append(replies, Reply(p, TRUE, None, None))
    /\ Settle(p, Returned(BatchUpdateResponse))
    /\ UNCHANGED <<mutVars, providerForm, pages, formsApi, ctor, starters, op, call, form,
                   pageToken, allResponses, sent, log, in, out>>

\* forms.responses.list resolves for getFormSummary, which has asked for
\* the first page only: the summary is made of the form and that page.
SummaryPageReturned(p) ==
    /\ pc[p] = "await"
    /\ call[p] = "getFormResponses"
    /\ op[p].name = "getFormSummary"
    /\ op[p].formId = KnownFormId
    /\ LET page == pages[PageIndex(pageToken[p])]
       IN  /\ replies' = Append(replies, Reply(p, TRUE, page.responses, page.nextPageToken))
           /\ Settle(p, Returned(FormSummaryOf(Get(form[p]), page)))
    /\ UNCHANGED <<mutVars, providerForm, pages, formsApi, ctor, starters, op, call, form,
                   pageToken, allResponses, sent, log, in, out>>

\* The get-response-summary tool: once generateResponseSummary has returned,
\* getFormSummary is called for the same form.
ThenFormSummary ==
    /\ pc["p1"] = "returned"
    /\ op["p1"].name = "generateResponseSummary"
    /\ pc["p2"] = "idle"
    /\ op' = [op EXCEPT !["p2"] = [op["p1"] EXCEPT !.name = "getFormSummary"]]
    /\ EnterCall("p2", "getForm")
    /\ UNCHANGED <<mutVars, providerForm, pages, formsApi, ctor, starters, form, pageToken,
                   allResponses, result, sent, replies, log, in, out>>

InitService ==
    /\ providerForm = FormA
    /\ pages \in PageLists
    /\ formsApi = FALSE
    /\ ctor = "pending"
    /\ starters = {"p1"}
    /\ InitProcs
    /\ NoMutation
    /\ in = NoInput
    /\ out = None

NextService ==
    \/ \E p \in Procs, o \in ServiceOperations : Start(p, o)
    \/ ThenFormSummary
    \/ CtorInitialized
    \/ CtorInitializeFails
    \/ \E p \in Procs : Initialized(p)
    \/ \E p \in Procs : InitializeFails(p)
    \/ \E p \in Procs : SendRequest(p)
    \/ \E p \in Procs : FormReturned(p)
    \/ \E p \in Procs : PageReturned(p)
    \/ \E p \in Procs : SummaryPageReturned(p)
    \/ \E p \in Procs : FormCreated(p)
    \/ \E p \in Procs : FormUpdated(p)
    \/ \E p \in Procs, e \in ProviderErrors \cup {NotFoundError, InvalidTokenError} :
            RequestFails(p, e)

SpecService == InitService /\ [][NextService]_vars

(***************************************************************************)
(* The normalisation of one raw answer: the formattedAnswer that           *)
(* formatResponseForDisplay builds for an entry of response.answers, as a  *)
(* function of the raw answer.                                             *)
(*   raw answer [textAnswers : option of a sequence of [value],            *)
(*               fileUploadAnswers : option of a sequence of               *)
(*                   [fileId, fileName, mimeType],                         *)
(*               grade : option of [score, correct, feedback : option of   *)
(*                   [text]]]                                              *)
(***************************************************************************)
TextAnswer(value) == [value |-> value]

FileUploadAnswer(id, name, mime) == [fileId |-> id, fileName |-> name, mimeType |-> mime]

Grade(score, correct, feedback) == [score |-> score, correct |-> correct, feedback |-> feedback]

ValueOf(a) == a.value

FileOf(file) == [fileId |-> file.fileId, fileName |-> file.fileName, mimeType |-> file.mimeType]

\* Mutant of formattedAnswer: one variant only, the first of text, files
\* and grade that the raw answer has.
formattedAnswerOneVariant(questionId, answer) ==
    [questionId |-> questionId,
     values     |-> IF IsSome(answer.textAnswers)
                    THEN Some(MapSeq(Get(answer.textAnswers), ValueOf)) ELSE None,
     value      |-> IF IsSome(answer.textAnswers) /\ Len(Get(answer.textAnswers)) = 1
                    THEN Some(Get(answer.textAnswers)[1].value) ELSE None,
     files      |-> IF ~IsSome(answer.textAnswers) /\ IsSome(answer.fileUploadAnswers)
                    THEN Some(MapSeq(Get(answer.fileUploadAnswers), FileOf)) ELSE None,
     grade      |-> IF /\ ~IsSome(answer.textAnswers)
                       /\ ~IsSome(answer.fileUploadAnswers)
                       /\ IsSome(answer.grade)
                    THEN Some([score    |-> Get(answer.grade).score,
                               correct  |-> Get(answer.grade).correct,
                               feedback |-> IF IsSome(Get(answer.grade).feedback)
                                            THEN Some(Get(Get(answer.grade).feedback).text)
                                            ELSE None])
                    ELSE None]

\* formattedAnswer: the question id, and values (with value, if there is
\* exactly one), files and grade, each set by an if of its own.
formattedAnswer(questionId, answer) ==
    LET values == IF IsSome(answer.textAnswers)
                  THEN Some(MapSeq(Get(answer.textAnswers), ValueOf)) ELSE None
    IN  [questionId |-> questionId,
         values     |-> values,
         value      |-> IF IsSome(values) /\ Len(Get(values)) = 1
                        THEN Some(Get(values)[1]) ELSE None,
         files      |-> IF IsSome(answer.fileUploadAnswers)
                        THEN Some(MapSeq(Get(answer.fileUploadAnswers), FileOf)) ELSE None,
         grade      |-> IF IsSome(answer.grade)
                        THEN Some([score    |-> Get(answer.grade).score,
                                   correct  |-> Get(answer.grade).correct,
                                   feedback |-> IF IsSome(Get(answer.grade).feedback)
                                                THEN Some(Get(Get(answer.grade).feedback).text)
                                                ELSE None])
                        ELSE None]

File1 == FileUploadAnswer(<<"a", "1">>, <<"c", "v">>, <<"p", "d", "f">>)

File2 == FileUploadAnswer(<<"a", "2">>, <<>>, <<"p", "n", "g">>)

\* No text answers, none, an empty string, one value, two values in both
\* orders.
RawTexts ==
    {None, Some(<<>>), Some(<<TextAnswer(<<>>)>>), Some(<<TextAnswer(<<"x">>)>>),
     Some(<<TextAnswer(<<"x">>), TextAnswer(<<"y">>)>>),
     Some(<<TextAnswer(<<"y">>), TextAnswer(<<"x">>)>>)}

RawFiles == {None, Some(<<>>), Some(<<File1>>), Some(<<File2, File1>>)}

RawGrades ==
    {None, Some(Grade(0, FALSE, None)), Some(Grade(2, TRUE, Some([text |-> <<"o", "k">>])))}

InitNormalize ==
    /\ in \in [questionId : {Q1}, textAnswers : RawTexts, fileUploadAnswers : RawFiles,
               grade : RawGrades]
    /\ AtRest

Normalize ==
    /\ out = None
    /\ out' = Some(formattedAnswer(in.questionId, in))
    /\ UNCHANGED restVars

NextNormalize == Normalize

SpecNormalize == InitNormalize /\ [][NextNormalize]_vars

(***************************************************************************)
(* The flattened JSON export of forms whose question titles are not        *)
(* distinct from each other or from the fields of a flattened response     *)
(***************************************************************************)
\* Two questions with the same title.
FormTwins ==
    FormOf(Some(<<Item(Some(<<"N", "a", "m", "e">>), Some(Question(Q1, "textQuestion", "", FALSE))),
                  Item(Some(<<"N", "a", "m", "e">>),
                       Some(Question(Q2, "choiceQuestion", "CHECKBOX", FALSE)))>>))

\* A question whose title is the name of a field of the flattened response.
FormFieldTitle ==
    FormOf(Some(<<Item(Some(S_responseId), Some(Question(Q1, "textQuestion", "", FALSE))),
                  Item(Some(<<"W", "h", "y">>),
                       Some(Question(Q2, "choiceQuestion", "CHECKBOX", FALSE)))>>))

FlattenForms == {FormTwins, FormFieldTitle, FormComma}

FlattenedResponses == {Exp1, Exp2, Exp3, RespEmpty}

InitFlatten ==
    /\ in \in [form : FlattenForms, responses : SeqsUpTo(FlattenedResponses, MaxExported),
               options : {o \in OptionCombinations : o.format = "json" /\ o.flattenResponses}]
    /\ AtRest

ExportFlattened ==
    /\ out = None
    /\ \E now \in Clock :
        out' = Some(exportAsJson(in.form, in.responses, in.options, now))
    /\ UNCHANGED restVars

NextFlatten == ExportFlattened

SpecFlatten == InitFlatten /\ [][NextFlatten]_vars

(***************************************************************************)
(* createSurveyWithQuestions of googleFormsService.js against the          *)
(* provider: forms.create, the update of the description, and for each     *)
(* question forms.get and forms.batchUpdate with one createItem request.   *)
(* The call in progress is held in mutation, with the index i of the       *)
(* question it is at; the form it creates in providerForm; the createItem  *)
(* requests the provider has applied in updates.                           *)
(***************************************************************************)
MaxQuestions == 3

SurveyQuestion(title, type) == [title |-> title, type |-> type]

\* Three questions of different types, two of them with the same title.
SurveyQuestions ==
    {SurveyQuestion(<<"N", "a", "m", "e">>, "TEXT"),
     SurveyQuestion(<<"W", "h", "y">>, "PARAGRAPH"),
     SurveyQuestion(<<"N", "a", "m", "e">>, "CHECKBOX")}

SurveyTitle == <<"P", "o", "l", "l">>

\* The question object addQuestionWithOptions builds for a type; the
\* options, labels and the required flag are left out.
QuestionOfType(id, type) ==
    CASE type \in {"CHOICE", "RADIO"} -> Question(id, "choiceQuestion", "RADIO", FALSE)
      [] type = "CHECKBOX"            -> Question(id, "choiceQuestion", "CHECKBOX", FALSE)
      [] type = "DROPDOWN"            -> Question(id, "choiceQuestion", "DROP_DOWN", FALSE)
      [] type = "SCALE"               -> Question(id, "scaleQuestion", "", FALSE)
      [] type = "PARAGRAPH"           -> Question(id, "textQuestion", "", TRUE)
      [] OTHER                        -> Question(id, "textQuestion", "", FALSE)

\* location: { index: 0 }
CreateItemIndex == 0

\* The items of the form after a createItem request at the index.
InsertItem(items, item, index) ==
    SubSeq(items, 1, index) \o <<item>> \o SubSeq(items, index + 1, Len(items))

SurveyItems == IF IsSome(providerForm.items) THEN Get(providerForm.items) ELSE <<>>

\* The result of createSurveyWithQuestions.
SurveyResult(formId) ==
    Returned([formId       |-> formId,
              responderUri |-> <<"https://docs.google.com/forms/d/", formId, "/viewform">>,
              editUri      |-> <<"https://docs.google.com/forms/d/", formId, "/edit">>])

\* The position of the call once the form is there or a question is added:
\* the next question is begun, after a 100 ms pause if it is not the first,
\* or the result is returned.
NextQuestion(i) ==
    /\ mutation' = [mutation EXCEPT !.i = i,
                                    !.pc = IF i > Len(in.questions) THEN "done"
                                           ELSE IF i > 1 THEN "pause"
                                           ELSE "reading"]
    /\ out' = IF i > Len(in.questions) THEN Some(SurveyResult(providerForm'.formId))
              ELSE out

\* The tool calls createSurveyWithQuestions, which calls createForm, which
\* sends forms.create.
StartSurvey ==
    /\ mutation.pc = "idle"
    /\ out = None
    /\ mutation' = [service |-> "googleFormsService.js", name |-> "createSurveyWithQuestions",
                    pc |-> "creating", revisionId |-> None, i |-> 0]
    /\ UNCHANGED <<providerForm, revision, updates, log, out>>

\* forms.create answers with the new form; createForm goes on to set the
\* description, if one is given, or returns.
SurveyCreated ==
    /\ mutation.pc = "creating"
    /\ providerForm' = [formId |-> NewFormId, title |-> in.title, description |-> None,
                        items |-> None]
    /\ revision' = 1
    /\ IF Truthy(in.description)
       THEN mutation' = [mutation EXCEPT !.pc = "delay"] /\ UNCHANGED out
       ELSE NextQuestion(1)
    /\ UNCHANGED <<updates, log>>

\* The 200 ms timer of createForm, or the 100 ms timer between two
\* questions, fires: forms.get is sent.
SurveyDelayed ==
    /\ mutation.pc \in {"delay", "pause"}
    /\ mutation' = [mutation EXCEPT !.pc = IF mutation.pc = "delay" THEN "describing"
                                           ELSE "reading"]
    /\ UNCHANGED <<providerForm, revision, updates, log, out>>

\* forms.get answers: the revision id is taken and forms.batchUpdate sent.
SurveyRead ==
    /\ mutation.pc \in {"describing", "reading"}
    /\ mutation' = [mutation EXCEPT !.revisionId = Some(revision),
                                    !.pc = IF mutation.pc = "describing" THEN "described"
                                           ELSE "writing"]
    /\ UNCHANGED <<providerForm, revision, updates, log, out>>

\* The provider applies the updateFormInfo request: createForm returns, and
\* the questions are begun.
SurveyDescribed ==
    /\ mutation.pc = "described"
    /\ providerForm' = [providerForm EXCEPT !.description = in.description]
    /\ revision' = revision + 1
    /\ NextQuestion(1)
    /\ UNCHANGED <<updates, log>>

\* The provider applies the createItem request of question i:
\* addQuestionWithOptions returns, and the loop goes on.
QuestionAdded ==
    /\ mutation.pc = "writing"
    /\ LET question == in.questions[mutation.i]
           item     == Item(Some(question.title),
                            Some(QuestionOfType(<<"q", Digits[Len(SurveyItems) + 2]>>,
                                                question.type)))
       IN  /\ providerForm' =
                [providerForm EXCEPT
                    !.items = Some(InsertItem(SurveyItems, item, CreateItemIndex))]
           /\ updates' = Append(updates, [question |-> mutation.i, title |-> question.title,
                                          index |-> CreateItemIndex,
                                          revisionId |-> mutation.revisionId])
    /\ revision' = revision + 1
    /\ NextQuestion(mutation.i + 1)
    /\ UNCHANGED log

\* A request of the call fails: the catch block of createForm or of
\* addQuestionWithOptions logs the error and throws it on, and the catch
\* block of createSurveyWithQuestions does the same.
SurveyRequestFails(e) ==
    /\ mutation.pc \in {"creating", "describing", "described", "reading", "writing"}
    /\ mutation' = [mutation EXCEPT !.pc = "failed"]
    /\ log' = log \o
         <<Message(IF mutation.i = 0
                   THEN "API Error creating form: ${error.message}"
                   ELSE "API Error adding question with options to form ${formId}: ${error.message}",
                   <<Interpolated("message", e)>>),
           Message("Error creating survey with questions: ${error.message}",
                   <<Interpolated("message", e)>>)>>
    /\ out' = Some(Raised(e))
    /\ UNCHANGED <<providerForm, revision, updates>>

surveyRestVars == <<pages, formsApi, ctor, starters, procVars, sent, replies, in>>

InitSurvey ==
    /\ in \in [title : {SurveyTitle}, description : {Some(<<>>), Some(<<"d">>)},
               questions : SeqsUpTo(SurveyQuestions, MaxQuestions)]
    /\ AtRest

NextSurvey ==
    \/ StartSurvey /\ UNCHANGED surveyRestVars
    \/ SurveyCreated /\ UNCHANGED surveyRestVars
    \/ SurveyDelayed /\ UNCHANGED surveyRestVars
    \/ SurveyRead /\ UNCHANGED surveyRestVars
    \/ SurveyDescribed /\ UNCHANGED surveyRestVars
    \/ QuestionAdded /\ UNCHANGED surveyRestVars
    \/ \E e \in ProviderErrors : SurveyRequestFails(e) /\ UNCHANGED surveyRestVars

SpecSurvey == InitSurvey /\ [][NextSurvey]_vars

(***************************************************************************)
(* Properties of the response fetcher                                      *)
(***************************************************************************)
\* The page requests of p and the provider's answers to them, in order.
ListRequests(p) ==
    LET mine(r) == r.proc = p /\ r.api = "forms.responses.list"
    IN  SelectSeq(sent, mine)

ListReplies(p) ==
    LET mine(r) == r.proc = p /\ r.api = "forms.responses.list"
    IN  SelectSeq(replies, mine)

ResponsesOf(reply) == IF IsSome(reply.responses) THEN Get(reply.responses) ELSE <<>>

Returns(p, name) == pc[p] = "returned" /\ op[p].name = name

\* C1: getAllFormResponses returns exactly the concatenation of the
\* responses lists of the pages the provider returned, in page order and
\* with the order within each page kept; its length is the sum of the page
\* sizes; nothing is de-duplicated; a page without a responses list
\* contributes nothing.
C1_Concatenation ==
    \A p \in Procs :
        LET pagesGot == ListReplies(p)
            lists    == MapSeq(pagesGot, ResponsesOf)
        IN  /\ (\A i \in 1..Len(pagesGot) : pagesGot[i].ok)
                => allResponses[p] = Flatten(lists)
            /\ Returns(p, "getAllFormResponses")
                => /\ Get(result[p]).value = Flatten(lists)
                   /\ Len(Get(result[p]).value) = SumSeq(MapSeq(lists, Len))

\* getAllFormResponses has returned after three pages, one of them without
\* a responses list, and one response came twice.
C1_Witness ==
    /\ Returns("p1", "getAllFormResponses")
    /\ Len(ListReplies("p1")) = 3
    /\ \E i \in 1..3 : ~IsSome(ListReplies("p1")[i].responses)
    /\ \E i, j \in 1..Len(Get(result["p1"]).value) :
            i < j /\ Get(result["p1"]).value[i] = Get(result["p1"]).value[j]

\* C2: page requests are issued one at a time: the first without a page
\* token, each later one only after the previous page has returned and with
\* exactly that page's nextPageToken; no request follows a page whose
\* nextPageToken is absent or empty; and paging completes exactly when the
\* provider has returned such a page.
C2_Sequential ==
    \A p \in Procs :
        LET reqs == ListRequests(p)
            reps == ListReplies(p)
            last == reps[Len(reps)]
        IN  /\ Len(reqs) - Len(reps) \in {0, 1}
            /\ Len(reqs) - Len(reps) = 1 <=> (pc[p] = "await" /\ call[p] = "getFormResponses")
            /\ Len(reqs) > 0 => reqs[1].pageToken = None
            /\ \A i \in 2..Len(reqs) :
                    /\ reps[i - 1].ok
                    /\ reqs[i].pageToken = reps[i - 1].nextPageToken
                    /\ Truthy(reqs[i].pageToken)
            /\ \A i \in 1..Len(reps) :
                    (reps[i].ok /\ ~Truthy(reps[i].nextPageToken)) => Len(reqs) = i
            /\ Returns(p, "getAllFormResponses")
                <=> /\ op[p].name = "getAllFormResponses"
                    /\ Len(reps) > 0
                    /\ last.ok
                    /\ ~Truthy(last.nextPageToken)

\* Paging has completed after three pages, the last with an empty
\* nextPageToken.
C2_Witness ==
    /\ Returns("p1", "getAllFormResponses")
    /\ Len(ListRequests("p1")) = 3
    /\ ListReplies("p1")[3].nextPageToken = Some(<<>>)

PagingFailed(p) ==
    /\ pc[p] = "failed"
    /\ Len(ListReplies(p)) > 0
    /\ ~ListReplies(p)[Len(ListReplies(p))].ok

\* The failure the provider answered the last page request of p with.
PagingFailure(p) == Get(ListReplies(p)[Len(ListReplies(p))].error)

NamesFormId(message, formId) ==
    \E i \in 1..Len(message.args) :
        message.args[i].kind = "formId" /\ message.args[i].value = formId

Carries(message, e) ==
    \E i \in 1..Len(message.args) :
        message.args[i].kind = "message" /\ message.args[i].value = e

NamesFetchingResponses(message) ==
    message.template \in {"Failed to get form responses: ${error.message}",
                          "Failed to get responses for form ${formId}: ${error.message}"}

C5_FormatCheckedBeforeFetch ==
    \A p \in Procs :
        (op[p].name = "exportResponses" /\ op[p].options.format \notin {"json", "csv"})
        => \A i \in 1..Len(sent) : sent[i].proc # p

(***************************************************************************)
(* Properties of the summary                                               *)
(***************************************************************************)
\* The summary was computed and returned.
SummaryReturned == IsSome(out) /\ ~Get(out).threw

Summaries == Get(out).value.questionSummaries

\* The positions of the responses that carry an answer for the question.
Carrying(responses, questionId) ==
    {j \in 1..Len(responses) :
        /\ IsSome(responses[j].answers)
        /\ \E e \in 1..Len(Get(responses[j].answers)) :
                Get(responses[j].answers)[e].k = questionId}

\* C6: the summary has exactly one question summary per question declared
\* on the form, in the form's display order, the questions no response
\* answered included with responseCount 0; an answer keyed by a question id
\* that is not on the form adds no summary.
C6_OneSummaryPerQuestion ==
    SummaryReturned
    => LET declared == QuestionItems(in.form)
       IN  /\ Len(Summaries) = Len(declared)
           /\ \A i \in 1..Len(declared) :
                /\ Summaries[i].questionId = Get(declared[i].question).questionId
                /\ Carrying(in.responses, Summaries[i].questionId) = {}
                    => Summaries[i].responseCount = 0

\* A form with a question nobody answered, summarised over responses one of
\* which answers a question that is not on the form.
C6_Witness ==
    /\ SummaryReturned
    /\ in.form = FormA
    /\ in.responses = <<Resp5, Resp3>>
    /\ Summaries[2].questionId = Q2
    /\ Summaries[2].responseCount = 0

\* C7: responseCount is the number of fetched responses carrying an answer
\* for the question id; responseRate is responseCount / totalResponses x 100
\* and lies in [0, 100]; with no responses it is exactly 0, never NaN and
\* never omitted.
C7_ResponseRate ==
    SummaryReturned
    => \A i \in 1..Len(Summaries) :
        LET count == Cardinality(Carrying(in.responses, Summaries[i].questionId))
            total == Get(out).value.totalResponses
            rate  == Summaries[i].statistics.responseRate
        IN  /\ total = Len(in.responses)
            /\ Summaries[i].responseCount = count
            /\ "responseRate" \in DOMAIN Summaries[i].statistics
            /\ rate.d > 0
            /\ total > 0 => rate.n * total = count * 100 * rate.d
            /\ total = 0 => rate = Frac(0, 1)
            /\ FracLeq(Frac(0, 1), rate) /\ FracLeq(rate, Frac(100, 1))

\* Two of three responses answer the first question: its rate is 200/3.
C7_Witness ==
    /\ SummaryReturned
    /\ in.form = FormA
    /\ in.responses = <<Resp1, RespEmpty, Resp3>>
    /\ Summaries[1].responseCount = 2
    /\ Summaries[1].statistics.responseRate = Frac(200, 3)

\* C8 as stated: the statistics computation never raises, whatever the
\* fetched responses: generateResponseSummary returns a summary.
C8_NeverRaises == IsSome(out) => ~Get(out).threw

\* C9: with zero fetched responses the summary has totalResponses 0, no
\* time range, and for every declared question responseCount 0 and
\* statistics with no numeric statistic other than responseRate = 0 (the
\* tally of a choice question is there and empty).
C9_ZeroResponses ==
    (IsSome(out) /\ in.responses = <<>>)
    => /\ ~Get(out).threw
       /\ Get(out).value.totalResponses = 0
       /\ Get(out).value.responseTimeRange = None
       /\ Len(Summaries) = Len(QuestionItems(in.form))
       /\ \A i \in 1..Len(Summaries) :
            LET statistics == Summaries[i].statistics
            IN  /\ Summaries[i].responseCount = 0
                /\ statistics.responseRate = Frac(0, 1)
                /\ \A field \in {"average", "median", "min", "max", "averageLength",
                                 "commonWords"} : statistics[field] = None
                /\ statistics.choiceDistribution \in {None, Some(<<>>)}

\* A form with a rating question and a text question, and no responses.
C9_Witness ==
    /\ IsSome(out)
    /\ in.responses = <<>>
    /\ in.form = FormRating
    /\ Len(Summaries) = 2

\* The integers that survive for a scale or rating question: of each
\* response carrying an answer, the first text value where it parses.
Surviving(responses, questionId) ==
    LET answerOf(r) == Lookup(Get(r.answers), questionId)
    IN  Present(MapSeq(Present(MapSeq(Present(MapSeq(responses, answerOf)), FirstValue)),
                       parseInt))

\* The k-th smallest of the values, counted with repetition.
KthSmallest(values, k) ==
    CHOOSE v \in Range(values) :
        /\ Cardinality({i \in 1..Len(values) : values[i] < v}) < k
        /\ k <= Cardinality({i \in 1..Len(values) : values[i] <= v})

\* The values are those of the reference list, in some order.
Rearranges(values, reference) ==
    /\ Len(values) = Len(reference)
    /\ \A v \in Range(values) \cup Range(reference) :
        Cardinality({i \in 1..Len(values) : values[i] = v})
            = Cardinality({i \in 1..Len(reference) : reference[i] = v})

\* The form with every rating question made a scale question.
AsScale(theForm) ==
    LET scaled(item) ==
            IF IsSome(item.question) /\ Get(item.question).kind = "ratingQuestion"
            THEN [item EXCEPT !.question =
                    Some([Get(item.question) EXCEPT !.kind = "scaleQuestion"])]
            ELSE item
    IN  IF IsSome(theForm.items)
        THEN [theForm EXCEPT !.items = Some(MapSeq(Get(theForm.items), scaled))]
        ELSE theForm

\* C10: for a scale or rating question with a non-empty list of surviving
\* integers, average is their arithmetic mean, min and max the smallest and
\* the largest, median the central element of the ascending list when its
\* length is odd and the mean of the two central ones when it is even
\* ([1,3,3,5] gives 3/3/1/5, [1,2,3,4] gives median 5/2); a rating question
\* gets the statistics a scale question gets for the same answers.
C10_ScaleStatistics ==
    SummaryReturned
    => \A i \in 1..Len(Summaries) :
        LET statistics == Summaries[i].statistics
            values     == Surviving(in.responses, Summaries[i].questionId)
            n          == Len(values)
        IN  /\ (Summaries[i].type \in {"scale", "rating"} /\ n > 0)
                => /\ IsSome(statistics.average)
                   /\ Get(statistics.average).d > 0
                   /\ Get(statistics.average).n * n
                        = SumSeq(values) * Get(statistics.average).d
                   /\ statistics.min = Some(KthSmallest(values, 1))
                   /\ statistics.max = Some(KthSmallest(values, n))
                   /\ statistics.median =
                        Some(IF n % 2 = 1
                             THEN Frac(KthSmallest(values, (n + 1) \div 2), 1)
                             ELSE Frac(KthSmallest(values, n \div 2)
                                        + KthSmallest(values, n \div 2 + 1), 2))
                   /\ Rearranges(values, <<1, 3, 3, 5>>)
                        => /\ statistics.average = Some(Frac(3, 1))
                           /\ statistics.median = Some(Frac(3, 1))
                           /\ statistics.min = Some(1)
                           /\ statistics.max = Some(5)
                   /\ Rearranges(values, <<1, 2, 3, 4>>)
                        => statistics.median = Some(Frac(5, 2))
            /\ Summaries[i].type = "rating"
                => statistics =
                     SummaryOf(AsScale(in.form), in.responses)
                        .value.questionSummaries[i].statistics

\* A rating question answered 4, 2, 1, 3: the median is 5/2.
C10_Witness ==
    /\ SummaryReturned
    /\ in.form = FormRating
    /\ in.responses = <<RespA, Resp2, Resp1, Resp3>>
    /\ Summaries[1].type = "rating"
    /\ Summaries[1].statistics.median = Some(Frac(5, 2))
    /\ Summaries[1].statistics.min = Some(1)
    /\ Summaries[1].statistics.max = Some(4)

(***************************************************************************)
(* Properties of the choice tally                                          *)
(***************************************************************************)
\* Every text value of every answer, in order.
ValuesOf(answers) ==
    LET texts(a) == IF IsSome(a.textAnswers) THEN Get(a.textAnswers) ELSE <<>>
    IN  Flatten(MapSeq(answers, texts))

\* C11 as stated: the choiceDistribution counts every text value of every
\* answer, whatever the value is, and the sum of its counts is the number
\* of answer values processed.
C11_TallyCountsEveryValue ==
    IsSome(out)
    => LET values == ValuesOf(in.answers)
           tally  == Get(out)
           count(entry) == entry.v
       IN  /\ \A i \in 1..Len(values) :
                \E e \in 1..Len(tally) :
                    /\ tally[e].k = values[i]
                    /\ tally[e].v =
                        Cardinality({j \in 1..Len(values) : values[j] = values[i]})
           /\ SumSeq(MapSeq(tally, count)) = Len(values)

(***************************************************************************)
(* Properties of the word frequencies                                      *)
(***************************************************************************)
\* The tokens of the answers' texts.
TokensOf(answers) == Flatten(MapSeq(Present(MapSeq(answers, FirstValue)), WordsOf))

Occurrences(tokens, word) == Cardinality({i \in 1..Len(tokens) : tokens[i] = word})

\* The commonWords of the result, in output order; empty if there is none.
CommonWords == IF IsSome(Get(out).commonWords) THEN Get(Get(out).commonWords) ELSE <<>>

\* commonWords has at most 10 entries.
AtMostTen == IsSome(out) => Len(CommonWords) <= 10

\* The entries are in non-increasing order of frequency.
NonIncreasing ==
    IsSome(out)
    => \A i, j \in 1..Len(CommonWords) : i < j => CommonWords[i].v >= CommonWords[j].v

\* No omitted token has a strictly higher count than an included one.
TopOfTable ==
    IsSome(out)
    => \A t \in 1..Len(TokensOf(in.answers)) :
        (\A e \in 1..Len(CommonWords) : CommonWords[e].k # TokensOf(in.answers)[t])
        => \A e \in 1..Len(CommonWords) :
                Occurrences(TokensOf(in.answers), TokensOf(in.answers)[t]) <= CommonWords[e].v

\* Only lower-cased tokens longer than 2 characters are counted, each with
\* the number of its occurrences.
CountsTokens ==
    IsSome(out)
    => \A e \in 1..Len(CommonWords) :
        /\ Len(CommonWords[e].k) > 2
        /\ \A c \in Range(CommonWords[e].k) :
                c \in Range(LowerChars) \cup Range(Digits) \cup {"_"}
        /\ CommonWords[e].v = Occurrences(TokensOf(in.answers), CommonWords[e].k)

\* "good service, good food" yields good: 2, service: 1, food: 1.
GoodServiceExample ==
    (IsSome(out) /\ in.answers = <<Answer(Some(<<TextGood>>))>>)
    => Range(CommonWords) = {[k |-> <<"g", "o", "o", "d">>, v |-> 2],
                             [k |-> <<"s", "e", "r", "v", "i", "c", "e">>, v |-> 1],
                             [k |-> <<"f", "o", "o", "d">>, v |-> 1]}

\* C12 as stated: commonWords is the top 10 of the token frequency table:
\* at most 10 entries, in output order non-increasing in frequency, no
\* omitted token with a strictly higher count than an included one, only
\* lower-cased tokens longer than 2 characters counted.
C12_TopWords ==
    AtMostTen /\ NonIncreasing /\ TopOfTable /\ CountsTokens /\ GoodServiceExample

(***************************************************************************)
(* Properties of the JSON export                                           *)
(***************************************************************************)
\* The export returned a JSON text.
JsonReturned == IsSome(out) /\ in.options.format = "json" /\ ~Get(out).threw

\* The responses the JSON text holds, each the sequence of its members.
EmittedResponses ==
    LET emitted == Get(Lookup(Get(out).value.o, S_responses)).a
    IN  [i \in 1..Len(emitted) |-> emitted[i].o]

\* The title the form shows for the question id, if it shows one.
DisplayTitle(theForm, questionId) ==
    LET items == IF IsSome(theForm.items) THEN Get(theForm.items) ELSE <<>>
        shown == {i \in 1..Len(items) :
                    /\ IsSome(items[i].question)
                    /\ Get(items[i].question).questionId = questionId
                    /\ IsSome(items[i].title)
                    /\ Get(items[i].title) # <<>>}
    IN  IF shown = {} THEN None ELSE items[CHOOSE i \in shown : TRUE].title

\* The key of an answer in the flattened map.
FlatKey(theForm, questionId) ==
    IF IsSome(DisplayTitle(theForm, questionId))
    THEN Get(DisplayTitle(theForm, questionId))
    ELSE S_QuestionPrefix \o questionId

\* The value of an answer with text values in the flattened map.
FlatValue(values) ==
    IF Len(values) = 1 THEN JsonString(values[1]) ELSE JsonArray(MapSeq(values, JsonString))

\* The fields of a flattened response that are no answers.
FixedKeys == {S_responseId, S_respondentEmail, S_createTime, S_lastSubmittedTime}

\* C13: in flattened JSON export every answer with text values is a member
\* whose key is the question's title, or "Question_<id>" when the question
\* has no title or is not on the form, and whose value is the single text
\* value when there is exactly one and the list of text values otherwise;
\* the response has no other members besides its fixed fields.
C13_FlattenedMap ==
    (JsonReturned /\ in.options.flattenResponses)
    => /\ Len(EmittedResponses) = Len(in.responses)
       /\ \A i \in 1..Len(in.responses) :
            LET answers == Get(in.responses[i].answers)
                texts   == {e \in 1..Len(answers) : IsSome(answers[e].v.textAnswers)}
            IN  /\ \A e \in texts :
                    Lookup(EmittedResponses[i], FlatKey(in.form, answers[e].k))
                        = Some(FlatValue(Get(answers[e].v.textAnswers)))
                /\ \A m \in 1..Len(EmittedResponses[i]) :
                    \/ EmittedResponses[i][m].k \in FixedKeys
                    \/ \E e \in texts :
                        EmittedResponses[i][m].k = FlatKey(in.form, answers[e].k)

\* A titled question with one value, an untitled one with two, and an
\* answer to a question that is not on the form, flattened.
C13_Witness ==
    /\ JsonReturned
    /\ in.options.flattenResponses
    /\ in.form = FormComma
    /\ in.responses = <<Exp1, Exp2>>
    /\ Lookup(EmittedResponses[1], <<"a", ",", "b">>) = Some(JsonString(<<"a", ",", "b">>))
    /\ Lookup(EmittedResponses[1], S_QuestionPrefix \o Q2)
            = Some(JsonArray(<<JsonString(<<"x">>), JsonString(<<"y">>)>>))
    /\ Lookup(EmittedResponses[2], S_QuestionPrefix \o Q9) = Some(JsonString(<<"z">>))

\* The emitted response has a member for each time the response has.
EmitsTimes(emitted, response) ==
    /\ IsSome(response.createTime) => IsSome(Lookup(emitted, S_createTime))
    /\ IsSome(response.lastSubmittedTime) => IsSome(Lookup(emitted, S_lastSubmittedTime))

EmitsNoTimes(emitted) ==
    /\ ~IsSome(Lookup(emitted, S_createTime))
    /\ ~IsSome(Lookup(emitted, S_lastSubmittedTime))

\* The metadata block is present if and only if includeMetadata is true.
MetadataIffRequested ==
    JsonReturned
    => (IsSome(Lookup(Get(out).value.o, S_metadata)) <=> in.options.includeMetadata)

\* In flattened mode the times are emitted if and only if includeTimestamps
\* is true.
FlattenedTimesIffRequested ==
    (JsonReturned /\ in.options.flattenResponses)
    => \A i \in 1..Len(in.responses) :
        IF in.options.includeTimestamps
        THEN EmitsTimes(EmittedResponses[i], in.responses[i])
        ELSE EmitsNoTimes(EmittedResponses[i])

\* C14 as stated: in JSON export each emitted response has createTime and
\* lastSubmittedTime if and only if includeTimestamps is true, flattened or
\* not, and the metadata block is there if and only if includeMetadata is
\* true.
C14_TimestampsAndMetadataIffRequested ==
    /\ MetadataIffRequested
    /\ JsonReturned
        => \A i \in 1..Len(in.responses) :
            IF in.options.includeTimestamps
            THEN EmitsTimes(EmittedResponses[i], in.responses[i])
            ELSE EmitsNoTimes(EmittedResponses[i])

(***************************************************************************)
(* Properties of the CSV export                                            *)
(***************************************************************************)
\* The export returned a CSV text.
CsvReturned == IsSome(out) /\ in.options.format = "csv" /\ ~Get(out).threw

CsvText == Get(out).value

\* The pieces of the text between the positions cut out, and between the
\* occurrences of a separator.
SplitAt(text, cuts) ==
    LET starts   == {1} \cup {i + 1 : i \in cuts}
        start(k) == CHOOSE s \in starts : Cardinality({t \in starts : t < s}) = k - 1
        end(s)   == IF \E c \in cuts : c >= s
                    THEN (CHOOSE c \in cuts : c >= s /\ \A d \in cuts : d >= s => c <= d) - 1
                    ELSE Len(text)
    IN  [k \in 1..(Cardinality(cuts) + 1) |-> SubSeq(text, start(k), end(start(k)))]

SplitOn(text, sep) == SplitAt(text, {i \in 1..Len(text) : text[i] = sep})

\* The first line of the text, split at its commas.
HeaderFields == SplitOn(SplitOn(CsvText, "\n")[1], ",")

\* The column title of a question item: its title, or Question_<id>, with
\* every comma replaced by a semicolon.
ColumnTitle(item) ==
    LET title == IF IsSome(item.title) /\ Get(item.title) # <<>>
                 THEN Get(item.title)
                 ELSE S_QuestionPrefix \o Get(item.question).questionId
    IN  [i \in 1..Len(title) |-> IF title[i] = "," THEN ";" ELSE title[i]]

\* C15: the CSV header is responseId, then createTime and lastSubmittedTime
\* if and only if includeTimestamps, then respondentEmail, then one column
\* per question of the form in display order, whatever answer keys the
\* responses hold.
C15_CsvHeader ==
    CsvReturned
    => HeaderFields =
         <<S_responseId>>
         \o (IF in.options.includeTimestamps
             THEN <<S_createTime, S_lastSubmittedTime>> ELSE <<>>)
         \o <<S_respondentEmail>>
         \o MapSeq(QuestionItems(in.form), ColumnTitle)

\* A form with a comma in a title and an untitled question, exported with
\* timestamps for a response that answers a question that is not on the
\* form and leaves one of the form unanswered.
C15_Witness ==
    /\ CsvReturned
    /\ in.form = FormComma
    /\ in.options.includeTimestamps
    /\ in.responses = <<Exp2>>
    /\ HeaderFields = <<S_responseId, S_createTime, S_lastSubmittedTime, S_respondentEmail,
                        <<"a", ";", "b">>, S_QuestionPrefix \o Q2>>

\* The field wrapped in double quotes, each double quote in it doubled.
Quoted(field) ==
    LET doubled(c) == IF c = "\"" THEN <<"\"", "\"">> ELSE <<c>>
    IN  <<"\"">> \o Flatten(MapSeq(field, doubled)) \o <<"\"">>

\* The value of an optional string in a row: empty if there is none.
FieldOf(s) == IF IsSome(s) THEN Get(s) ELSE <<>>

\* The content of the answer field of a response for a question item: the
\* text values joined with "; ", empty if the answer is missing.
AnswerField(response, item) ==
    LET answer == Lookup(Get(response.answers), Get(item.question).questionId)
    IN  IF IsSome(answer) /\ IsSome(Get(answer).textAnswers)
        THEN Join(Get(Get(answer).textAnswers), <<";", " ">>)
        ELSE <<>>

\* The contents of the fields of the row of a response.
RowFields(response) ==
    LET answerField(item) == AnswerField(response, item)
    IN  <<response.responseId>>
        \o (IF in.options.includeTimestamps
            THEN <<FieldOf(response.createTime), FieldOf(response.lastSubmittedTime)>>
            ELSE <<>>)
        \o <<FieldOf(response.respondentEmail)>>
        \o MapSeq(QuestionItems(in.form), answerField)

\* The contents of the fields of the header and of every data row.
TableFields ==
    <<<<S_responseId>>
       \o (IF in.options.includeTimestamps
           THEN <<S_createTime, S_lastSubmittedTime>> ELSE <<>>)
       \o <<S_respondentEmail>>
       \o MapSeq(QuestionItems(in.form), ColumnTitle)>>
    \o MapSeq(in.responses, RowFields)

\* C16 as stated: every field of every row (header titles, responseId,
\* timestamps, respondentEmail and answers) is wrapped in double quotes with
\* its double quotes doubled, the values of an answer joined with "; ", a
\* missing answer rendered as "".
C16_EveryFieldQuoted ==
    CsvReturned
    => LET line(fields) == Join(MapSeq(fields, Quoted), <<",">>)
       IN  SplitOn(CsvText, "\n") = SplitOn(Join(MapSeq(TableFields, line), <<"\n">>), "\n")

\* The positions of the separator in the text that are outside of quoted
\* fields: those with an even number of double quotes before them.
Separators(text, sep) ==
    {i \in 1..Len(text) :
        /\ text[i] = sep
        /\ Cardinality({j \in 1..(i - 1) : text[j] = "\""}) % 2 = 0}

\* The rows of the CSV text, and the number of fields of a row.
CsvRows == SplitAt(CsvText, Separators(CsvText, "\n"))

FieldCount(row) == Cardinality(Separators(row, ",")) + 1

\* The answers of a response, in the order of its answers object.
AnswersOf(response) ==
    LET answer(entry) == entry.v
    IN  IF IsSome(response.answers) THEN MapSeq(Get(response.answers), answer) ELSE <<>>

\* C17 as stated: the header row is followed by exactly one data row per
\* fetched response, in fetch order; each row is one line terminated by \n,
\* has no trailing delimiter, and has as many fields as the header.
C17_RowsAreTerminatedLines ==
    CsvReturned
    => LET lines == SplitOn(CsvText, "\n")
       IN  /\ Len(lines) = Len(in.responses) + 2
           /\ lines[Len(lines)] = <<>>
           /\ \A i \in 1..Len(in.responses) :
                /\ SplitOn(lines[i + 1], ",")[1] = in.responses[i].responseId
                /\ FieldCount(lines[i + 1]) = FieldCount(lines[1])

\* C17 amended: the rows are the header and one data row per fetched
\* response in fetch order, separated by \n with none after the last row;
\* each row has as many fields as the header, separated by single commas,
\* and is one line unless an answer value holds a line break, which is
\* written as it is inside the quoted field.
C17_RowsAreSeparated ==
    CsvReturned
    => /\ Len(CsvRows) = Len(in.responses) + 1
       /\ CsvText[Len(CsvText)] # "\n"
       /\ \A i \in 1..Len(in.responses) :
            /\ SplitOn(CsvRows[i + 1], ",")[1] = in.responses[i].responseId
            /\ FieldCount(CsvRows[i + 1]) = FieldCount(CsvRows[1])
            /\ FieldCount(CsvRows[i + 1]) = Len(RowFields(in.responses[i]))
            /\ (\A v \in Range(ValuesOf(AnswersOf(in.responses[i]))) : "\n" \notin Range(v))
                => "\n" \notin Range(CsvRows[i + 1])

\* Two responses exported in fetch order, the second before the first by
\* its identifier, one of them with a value of two lines and a missing
\* answer in the last column.
C17_Witness ==
    /\ CsvReturned
    /\ in.form = FormComma
    /\ in.responses = <<Exp3, Exp1>>
    /\ Len(CsvRows) = 3
    /\ FieldCount(CsvRows[2]) = 4
    /\ "\n" \in Range(CsvRows[2])

(***************************************************************************)
(* Properties of concurrent invocations                                    *)
(***************************************************************************)
\* The requests p sent and the answers it got, in order.
RequestsOf(p) == LET mine(r) == r.proc = p IN SelectSeq(sent, mine)

RepliesTo(p) == LET mine(r) == r.proc = p IN SelectSeq(replies, mine)

\* Everything the provider holds for the form, in page order.
ProviderResponses ==
    LET content(page) == IF IsSome(page.responses) THEN Get(page.responses) ELSE <<>>
    IN  Flatten(MapSeq(pages, content))

\* The requests of a complete fetch of the form by p: the form, then its
\* pages one after the other.
CompleteFetch(p) ==
    <<[proc |-> p, api |-> "forms.get", formId |-> op[p].formId, pageToken |-> None]>>
    \o [i \in 1..Len(pages) |->
          [proc |-> p, api |-> "forms.responses.list", formId |-> op[p].formId,
           pageToken |-> IF i = 1 THEN None ELSE Some(Token(i))]]

\* What the call of p returns or raises when it runs alone and every
\* request succeeds.
AloneResults(p) ==
    {FinishFetched(op[p], Some(providerForm), ProviderResponses, now) : now \in Clock}

\* C18: under every interleaving of two summary / export invocations, for
\* the same or for different form ids, each invocation that gets all its
\* answers has made its own complete fetch and settles with the result it
\* has when run alone; one whose request fails is rejected with the failure
\* of its own request, and a failure of the other one does not reach it.
C18_Independent ==
    \A p \in Procs :
        IsSome(result[p])
        => IF \A i \in 1..Len(RepliesTo(p)) : RepliesTo(p)[i].ok
           THEN \/ /\ RepliesTo(p) = <<>>
                   /\ Get(result[p]) = Raised(AuthError)
                \/ /\ RequestsOf(p) = CompleteFetch(p)
                   /\ Len(RepliesTo(p)) = Len(RequestsOf(p))
                   /\ Get(result[p]) \in AloneResults(p)
           ELSE LET last == RepliesTo(p)[Len(RepliesTo(p))]
                IN  /\ Len(RepliesTo(p)) = Len(RequestsOf(p))
                    /\ RequestsOf(p) = SubSeq(CompleteFetch(p), 1, Len(RequestsOf(p)))
                    /\ \A i \in 1..(Len(RepliesTo(p)) - 1) : RepliesTo(p)[i].ok
                    /\ Get(result[p]) =
                         Raised(ThrownError(IF last.api = "forms.get" THEN "getForm"
                                            ELSE "getFormResponses",
                                            op[p].formId, Get(last.error)))

\* A summary and an export of the same form have both returned, their
\* requests interleaved one by one.
C18_Witness ==
    /\ pc = [p \in Procs |-> "returned"]
    /\ op["p1"].name = "generateResponseSummary"
    /\ op["p2"].name = "exportResponses"
    /\ op["p1"].formId = op["p2"].formId
    /\ \A i \in 1..Len(sent) : sent[i].proc = (IF i % 2 = 1 THEN "p1" ELSE "p2")
    /\ Len(sent) = 6

(***************************************************************************)
(* The get-form-responses tool                                             *)
(***************************************************************************)
ToolReturned == IsSome(out) /\ ~Get(out).isError

\* The response ids the tool's text carries, in order: the id of each
\* element of responses in JSON, the first field of each row after the
\* header in CSV.
ToolResponseIds ==
    LET text == Get(out).text
    IN  IF in.format = "json"
        THEN LET responses == Get(Lookup(text.o, S_responses)).a
                 id(r)     == Get(Lookup(r.o, S_id)).s
             IN  MapSeq(responses, id)
        ELSE LET rows     == Tail(SplitAt(text, Separators(text, "\n")))
                 first(r) == Head(SplitAt(r, Separators(r, ",")))
             IN  MapSeq(rows, first)

FetchedIds ==
    LET id(r) == r.responseId
    IN  MapSeq(in.responses, id)

\* C19: in either format the tool returns the first `limit` fetched
\* responses when a positive limit is given, and all fetched responses
\* when no limit is given.
C19_LimitInEveryFormat ==
    ToolReturned =>
        /\ (IsSome(in.limit) /\ Get(in.limit) > 0) =>
                /\ Len(ToolResponseIds) <= Get(in.limit)
                /\ ToolResponseIds = Limited(FetchedIds, in.limit)
        /\ ~IsSome(in.limit) => ToolResponseIds = FetchedIds

\* The JSON format alone keeps the limit.
JsonKeepsLimit ==
    (ToolReturned /\ in.format = "json") => ToolResponseIds = Limited(FetchedIds, in.limit)

\* The CSV format returns every fetched response, whatever the limit.
CsvIgnoresLimit ==
    (ToolReturned /\ in.format = "csv") => ToolResponseIds = FetchedIds

(***************************************************************************)
(* Revision ids of the form-mutation operations                            *)
(***************************************************************************)
\* The batchUpdate was preceded by a read of the form in its operation and
\* carries the revision id that read returned.
SendsWhatItRead(u) == IsSome(u.read) /\ u.revisionId = u.read

\* Another writer updated the form between the read and the batchUpdate.
Interleaved(u) == IsSome(u.read) /\ Get(u.read) # u.latest

\* C20: every batchUpdate of addQuestion, addQuestionWithOptions,
\* createForm and updateFormSettings follows a read of the form in the same
\* operation and sends the revision id that read returned, and an update
\* that another writer interleaved between the read and the write is
\* detected: the batchUpdate is rejected.
C20_WritesCarryTheReadRevision ==
    \A i \in 1..Len(updates) :
        /\ SendsWhatItRead(updates[i])
        /\ Interleaved(updates[i]) => updates[i].outcome = "rejected"

\* Every operation but updateFormSettings of googleFormsService.ts reads
\* first and sends what it read.
ReadersSendWhatTheyRead ==
    \A i \in 1..Len(updates) :
        ReadsFirst(updates[i].service, updates[i].name) => SendsWhatItRead(updates[i])

\* With requiredRevisionId and a read, an interleaved update is detected.
RequiredDetects ==
    \A i \in 1..Len(updates) :
        (updates[i].control = "requiredRevisionId" /\ Interleaved(updates[i]))
            => updates[i].outcome = "rejected"

\* updateFormSettings of googleFormsService.ts never reads and sends ''.
SettingsSentBlind ==
    \A i \in 1..Len(updates) :
        (updates[i].service = "googleFormsService.ts"
            /\ updates[i].name = "updateFormSettings")
        => ~IsSome(updates[i].read) /\ ~IsSome(updates[i].revisionId)

\* An interleaved update is merged, not detected, by a batchUpdate of
\* googleFormsService.js.
MergedUndetected ==
    \E i \in 1..Len(updates) :
        /\ updates[i].service = "googleFormsService.js"
        /\ Interleaved(updates[i])
        /\ updates[i].outcome = "merged"

(***************************************************************************)
(* Scale and rating questions: which answers count                         *)
(***************************************************************************)
\* The text begins, after white space and an optional sign, with a digit:
\* it parses as an integer.
ParsesAsInteger(text) ==
    \E i \in 1..Len(text) :
        /\ IsDigit(text[i])
        /\ \A j \in 1..(i - 1) :
              \/ IsSpace(text[j]) /\ \A k \in 1..j : IsSpace(text[k])
              \/ j = i - 1 /\ text[j] \in {"-", "+"} /\ \A k \in 1..(j - 1) : IsSpace(text[k])

\* The answers that count: those whose first text value is there and
\* parses as an integer.
Counted(answers) ==
    LET counts(a) == /\ IsSome(a.textAnswers)
                     /\ Get(a.textAnswers) # <<>>
                     /\ ParsesAsInteger(Get(a.textAnswers)[1])
    IN  SelectSeq(answers, counts)

CountedValues(answers) ==
    LET number(a) == Get(parseInt(Get(a.textAnswers)[1]))
    IN  MapSeq(Counted(answers), number)

\* C21: for a scale or rating question only the first text value of each
\* answer is considered; an answer whose first value is missing or does not
\* parse as an integer is skipped, neither counted as 0 nor an error; and
\* average, median, min and max are all present when at least one value
\* survives and all absent otherwise.
C21_SkipsWhatDoesNotParse ==
    IsSome(out) =>
        LET statistics == Get(out)
            values     == CountedValues(in.answers)
            n          == Len(values)
        IN  /\ n = 0 => /\ statistics.average = None /\ statistics.median = None
                        /\ statistics.min = None /\ statistics.max = None
            /\ n > 0 => /\ IsSome(statistics.average) /\ IsSome(statistics.median)
                        /\ statistics.min = Some(KthSmallest(values, 1))
                        /\ statistics.max = Some(KthSmallest(values, n))
                        /\ Get(statistics.average).d > 0
                        /\ Get(statistics.average).n * n
                             = SumSeq(values) * Get(statistics.average).d

\* An answer that is no number and one whose number comes second are
\* skipped beside one that counts.
C21_Witness ==
    /\ IsSome(out)
    /\ Len(in.answers) = 3
    /\ Len(Counted(in.answers)) = 1
    /\ \E i \in 1..3 : in.answers[i] = Answer(Some(<<<<"x">>, <<"5">>>>))
    /\ \E i \in 1..3 : in.answers[i] = Answer(None)
    /\ Get(out).min = Some(4)
    /\ Get(out).max = Some(4)

(***************************************************************************)
(* The time range of the summary                                           *)
(***************************************************************************)
\* A time stamp that is there: a string that is not empty.
HasTime(t) == IsSome(t) /\ Get(t) # <<>>

\* The strings collected from the responses: of each response its
\* lastSubmittedTime if it has one, else its createTime if it has one.
Stamps(responses) ==
    {Get(responses[i].lastSubmittedTime) :
        i \in {j \in 1..Len(responses) : HasTime(responses[j].lastSubmittedTime)}}
    \cup
    {Get(responses[i].createTime) :
        i \in {j \in 1..Len(responses) : /\ ~HasTime(responses[j].lastSubmittedTime)
                                         /\ HasTime(responses[j].createTime)}}

\* C22: the time range of the summary takes of each response its
\* lastSubmittedTime if present, else its createTime; earliest is the
\* smallest and latest the largest of the collected strings in
\* lexicographic order, so earliest <= latest; the range is absent exactly
\* when no response carries either time stamp.
C22_TimeRange ==
    SummaryReturned =>
        LET range  == Get(out).value.responseTimeRange
            stamps == Stamps(in.responses)
        IN  /\ range = None <=> stamps = {}
            /\ IsSome(range) =>
                /\ Get(range).earliest \in stamps
                /\ Get(range).latest \in stamps
                /\ \A s \in stamps : /\ ~StrLess(s, Get(range).earliest)
                                     /\ ~StrLess(Get(range).latest, s)
                /\ ~StrLess(Get(range).latest, Get(range).earliest)

\* A response with both time stamps gives the latest with its
\* lastSubmittedTime, another one the earliest with its createTime.
C22_Witness ==
    /\ SummaryReturned
    /\ \E i \in 1..Len(in.responses) : in.responses[i] = RespB
    /\ \E i \in 1..Len(in.responses) : in.responses[i] = Resp1
    /\ Get(out).value.responseTimeRange =
         Some([earliest |-> Get(Resp1.createTime), latest |-> Get(RespB.lastSubmittedTime)])

(***************************************************************************)
(* The average completion time                                             *)
(***************************************************************************)
\* The responses that qualify: both time stamps are there, both are
\* instants, and the submission is strictly later than the creation.
Qualifying(responses) ==
    {i \in 1..Len(responses) :
        /\ HasTime(responses[i].createTime)
        /\ HasTime(responses[i].lastSubmittedTime)
        /\ IsSome(getTime(Get(responses[i].createTime)))
        /\ IsSome(getTime(Get(responses[i].lastSubmittedTime)))
        /\ Get(getTime(Get(responses[i].lastSubmittedTime)))
             > Get(getTime(Get(responses[i].createTime)))}

\* lastSubmittedTime - createTime of response i, in milliseconds.
Delta(responses, i) ==
    Get(getTime(Get(responses[i].lastSubmittedTime)))
        - Get(getTime(Get(responses[i].createTime)))

RECURSIVE SumOver(_, _)
SumOver(responses, indices) ==
    IF indices = {} THEN 0
    ELSE LET i == CHOOSE j \in indices : TRUE
         IN  Delta(responses, i) + SumOver(responses, indices \ {i})

AverageCompletionTime == Get(Lookup(Get(out).o, S_averageCompletionTime))

\* C23: averageCompletionTime is the mean, in whole seconds, of
\* lastSubmittedTime - createTime over exactly the responses that have both
\* time stamps and a strictly positive difference; zero and negative
\* differences enter neither the sum nor the count; the value is null when
\* no response qualifies.
C23_AverageCompletionTime ==
    IsSome(out) =>
        LET n     == Cardinality(Qualifying(in.responses))
            total == SumOver(in.responses, Qualifying(in.responses))
        IN  /\ n = 0 => AverageCompletionTime = JsonNull
            /\ n > 0 =>
                /\ AverageCompletionTime.t = "number"
                /\ 2 * (1000 * n * AverageCompletionTime.n - total) <= 1000 * n
                /\ 2 * (total - 1000 * n * AverageCompletionTime.n) <= 1000 * n

\* A response submitted at its creation is left out beside two that took
\* one and two seconds: the mean of 1.5 s is reported as 2.
C23_Witness ==
    /\ IsSome(out)
    /\ Len(in.responses) = 3
    /\ Cardinality(Qualifying(in.responses)) = 2
    /\ SumOver(in.responses, Qualifying(in.responses)) = 3000
    /\ \E i \in 1..3 : in.responses[i].createTime = in.responses[i].lastSubmittedTime
    /\ AverageCompletionTime = JsonNumber(2)

(***************************************************************************)
(* Export serialisation as a function of its inputs                        *)
(***************************************************************************)
ExportedTwice == IsSome(out) /\ Len(Get(out)) = 2

\* The result of an export without the exportedAt member of the metadata.
WithoutExportedAt(r) ==
    LET other(e) == e.k # S_exportedAt
        strip(e) == IF e.k = S_metadata
                    THEN [k |-> e.k, v |-> JsonObject(SelectSeq(e.v.o, other))]
                    ELSE e
    IN  IF r.threw \/ in.options.format # "json" THEN r
        ELSE Returned(JsonObject(MapSeq(r.value.o, strip)))

Sends == Len(sent') > Len(sent)

\* Invocation p enters its rateLimit delay in this step.
EntersDelay(p) == pc[p] # "rateLimit" /\ pc'[p] = "rateLimit"

\* C25: every request sent to the provider (forms.get, each
\* forms.responses.list page, forms.batchUpdate, forms.create) is sent by a
\* call at the moment its own rateLimit delay completes, one request for
\* one delay, and a call enters its delay only once the API client is
\* initialised and sends nothing on entering it.
C25_DelayBeforeEveryRequest ==
    [][/\ Sends =>
            \E p \in Procs : /\ pc[p] = "rateLimit"
                             /\ pc'[p] = "await"
                             /\ formsApi
                             /\ sent' = Append(sent, Request(p))
       /\ \A p \in Procs : EntersDelay(p) => formsApi' /\ sent' = sent]_vars

\* The response summary and then the form summary have been fetched with
\* five requests, one of them for a second page of responses.
C25_Witness ==
    /\ Len(sent) = 5
    /\ \E i \in 1..Len(sent) : sent[i].api = "forms.responses.list" /\ IsSome(sent[i].pageToken)
    /\ sent[4].api = "forms.get"
    /\ \A p \in Procs : pc[p] = "returned"

\* The get-response-summary tool has both of its results for the form the
\* provider holds.
BothSummaries ==
    /\ op["p1"].name = "generateResponseSummary"
    /\ op["p2"].name = "getFormSummary"
    /\ pc["p1"] = "returned"
    /\ pc["p2"] = "returned"

\* C27: the responseCount that getFormSummary reports equals the
\* totalResponses that generateResponseSummary reports for the same form,
\* whatever the number of response pages.
C27_CountsAgree ==
    BothSummaries =>
        Get(result["p2"]).value.responseCount = Get(result["p1"]).value.totalResponses

\* The initializeApi calls in flight: the constructor's, and the one of each
\* call that found this.formsApi unset in ensureInitialized.
InitializationsInFlight ==
    (IF ctor = "pending" THEN 1 ELSE 0) + Cardinality({p \in Procs : pc[p] = "auth"})

\* C30: the API client is initialised once: a call that arrives while the
\* initialisation the constructor started is in flight waits for that one
\* and starts none of its own, and no request is sent to the provider while
\* the client is unset.
C30_InitialisedOnce ==
    /\ InitializationsInFlight <= 1
    /\ Len(sent) > 0 => formsApi

\* The variants the normalised answer holds: values, files, grade.
Populated(answer) ==
    (IF IsSome(answer.values) THEN 1 ELSE 0) + (IF IsSome(answer.files) THEN 1 ELSE 0)
        + (IF IsSome(answer.grade) THEN 1 ELSE 0)

\* The parts the raw answer has.
RawParts(answer) ==
    (IF IsSome(answer.textAnswers) THEN 1 ELSE 0)
        + (IF IsSome(answer.fileUploadAnswers) THEN 1 ELSE 0)
        + (IF IsSome(answer.grade) THEN 1 ELSE 0)

\* The values, files and grade of the normalised answer are those of the raw
\* answer: the text values in their order, each file's id, name and MIME
\* type, the grade's score, correctness and feedback text.
Carried(raw, answer) ==
    /\ IsSome(answer.values) = IsSome(raw.textAnswers)
    /\ IsSome(answer.values) =>
            /\ Len(Get(answer.values)) = Len(Get(raw.textAnswers))
            /\ \A i \in 1..Len(Get(answer.values)) :
                    Get(answer.values)[i] = Get(raw.textAnswers)[i].value
    /\ IsSome(answer.files) = IsSome(raw.fileUploadAnswers)
    /\ IsSome(answer.files) =>
            /\ Len(Get(answer.files)) = Len(Get(raw.fileUploadAnswers))
            /\ \A i \in 1..Len(Get(answer.files)) :
                    LET f == Get(answer.files)[i]
                        r == Get(raw.fileUploadAnswers)[i]
                    IN  f.fileId = r.fileId /\ f.fileName = r.fileName /\ f.mimeType = r.mimeType
    /\ IsSome(answer.grade) = IsSome(raw.grade)
    /\ IsSome(answer.grade) =>
            /\ Get(answer.grade).score = Get(raw.grade).score
            /\ Get(answer.grade).correct = Get(raw.grade).correct
            /\ IsSome(Get(answer.grade).feedback) = IsSome(Get(raw.grade).feedback)
            /\ IsSome(Get(raw.grade).feedback) =>
                    Get(Get(answer.grade).feedback) = Get(Get(raw.grade).feedback).text

\* C26 as stated: normalising a raw answer yields exactly one populated
\* variant, text values, file references or grade, never two at once, and a
\* raw answer with none of them yields none, which differs from an answer
\* holding an empty string.
C26_ExactlyOneVariant ==
    IsSome(out) =>
        /\ Populated(Get(out)) = (IF RawParts(in) = 0 THEN 0 ELSE 1)
        /\ RawParts(in) = 0 => Get(out).values # Some(<<<<>>>>)

\* C26 as the code has it: every part the raw answer has is carried over on
\* its own, so the normalised answer holds as many variants as the raw
\* answer has parts (a graded text answer holds values and grade); a raw
\* answer with none of them yields the question id alone, with no values,
\* which differs from the one empty value of an empty string.
C26_EveryPartCarried ==
    IsSome(out) =>
        /\ Carried(in, Get(out))
        /\ Populated(Get(out)) = RawParts(in)
        /\ Get(out).questionId = in.questionId
        /\ IsSome(Get(out).value) = (IsSome(in.textAnswers) /\ Len(Get(in.textAnswers)) = 1)
        /\ RawParts(in) = 0 => Get(out).values = None

\* A graded text answer with two values has been normalised.
C26_Witness ==
    /\ IsSome(out)
    /\ in.textAnswers = Some(<<TextAnswer(<<"y">>), TextAnswer(<<"x">>)>>)
    /\ in.fileUploadAnswers = None
    /\ IsSome(in.grade)
    /\ Get(out).values = Some(<<<<"y">>, <<"x">>>>)
    /\ IsSome(Get(out).grade)

\* The fields of the flattened response that are no answers hold the
\* response's own values.
KeepsFixedFields(emitted, response, options) ==
    /\ Lookup(emitted, S_responseId) = Some(JsonString(response.responseId))
    /\ Lookup(emitted, S_respondentEmail) = StringProperty(response.respondentEmail)
    /\ options.includeTimestamps =>
        /\ Lookup(emitted, S_createTime) = StringProperty(response.createTime)
        /\ Lookup(emitted, S_lastSubmittedTime) = StringProperty(response.lastSubmittedTime)

\* Every answer with text values is a member of its own of the flattened
\* response, with its value or values: no two of them share a member, and
\* none shares one with a fixed field.
KeepsTextAnswers(emitted, theForm, response) ==
    LET answers == Get(response.answers)
        texts   == {e \in 1..Len(answers) : IsSome(answers[e].v.textAnswers)}
    IN  /\ \A e \in texts :
            Lookup(emitted, FlatKey(theForm, answers[e].k))
                = Some(FlatValue(Get(answers[e].v.textAnswers)))
        /\ \A e, f \in texts :
            e # f => FlatKey(theForm, answers[e].k) # FlatKey(theForm, answers[f].k)
        /\ \A e \in texts : FlatKey(theForm, answers[e].k) \notin FixedKeys

\* C28: the flattened JSON export loses no text answer: in every flattened
\* response each answered question with text values has a member of its
\* own with its value or values, and responseId, respondentEmail and the
\* time stamps hold the response's own values, also when two questions
\* have the same title or a title is the name of one of those fields.
C28_NoAnswerLost ==
    JsonReturned =>
        \A i \in 1..Len(in.responses) :
            /\ KeepsFixedFields(EmittedResponses[i], in.responses[i], in.options)
            /\ KeepsTextAnswers(EmittedResponses[i], in.form, in.responses[i])

\* The titles of the questions the form lists, in the form's order.
ListedTitles == [k \in 1..Len(SurveyItems) |-> Get(SurveyItems[k].title)]

\* The titles of the first n questions of the input, in the input's order.
GivenTitles(n) == [k \in 1..n |-> in.questions[k].title]

SurveyInProgress == mutation.name = "createSurveyWithQuestions"

\* The questions are added one at a time in the order of the input: the
\* k-th addition the provider has applied is the one of the k-th question,
\* and the call is never further than one question past them.
AddedOneByOne ==
    SurveyInProgress =>
        /\ \A k \in 1..Len(updates) : updates[k].question = k
        /\ mutation.pc \in {"pause", "reading", "writing"} => mutation.i = Len(updates) + 1

\* The form lists the questions added so far in the order of the input.
ListedInInputOrder ==
    SurveyInProgress /\ mutation.i > 0 => ListedTitles = GivenTitles(Len(updates))

\* Once a request has failed the operation has failed, and nothing is added
\* any more.
FailureStops ==
    mutation.pc = "failed" =>
        /\ IsSome(out) /\ Get(out).threw
        /\ updates' = updates
        /\ providerForm' = providerForm
        /\ mutation' = mutation

\* C29: createSurveyWithQuestions adds the questions one at a time, each
\* addition complete before the next begins; the form it creates lists the
\* questions in the order of the input array; and if adding the k-th
\* question fails the operation fails and no later question is added.
C29_QuestionsInInputOrder ==
    /\ [](AddedOneByOne /\ ListedInInputOrder)
    /\ [][FailureStops]_vars

====
